---------------------------- MODULE Spec2Model ----------------------------
(***************************************************************************)
(* BizGenie: the answer node (generate_answer + tool_router), the          *)
(* fire-and-forget scheduling of notification senders on the event loop,   *)
(* and the legacy tools_executor_node.                                     *)
(*                                                                         *)
(* A Python str is a sequence of one-character strings; a non-ASCII        *)
(* character is written "U+xxxx".  A Python value (what json.loads         *)
(* returns, what a dict holds) is a tagged record, see PyNone .. PyDict.   *)
(***************************************************************************)
EXTENDS Integers, Sequences, FiniteSets, TLC

(***************************************************************************)
(* Python str primitives                                                   *)
(***************************************************************************)
Whitespace == {" ", "\t", "\n", "\r"}

Digits == {"0", "1", "2", "3", "4", "5", "6", "7", "8", "9"}

Uppers ==
    <<"A","B","C","D","E","F","G","H","I","J","K","L","M",
      "N","O","P","Q","R","S","T","U","V","W","X","Y","Z">>

Lowers ==
    <<"a","b","c","d","e","f","g","h","i","j","k","l","m",
      "n","o","p","q","r","s","t","u","v","w","x","y","z">>

\* str.lower() on one character
LowerChar(c) ==
    IF \E i \in DOMAIN Uppers : Uppers[i] = c
    THEN Lowers[CHOOSE i \in DOMAIN Uppers : Uppers[i] = c]
    ELSE c

\* str.lower()
Lower(s) == [i \in 1..Len(s) |-> LowerChar(s[i])]

\* the substring s[i:j] of Python, with 1-based inclusive bounds
Slice(s, i, j) == SubSeq(s, i, j)

\* whether k occurs in s at position i
OccursAt(s, k, i) ==
    /\ i >= 1
    /\ i + Len(k) - 1 <= Len(s)
    /\ \A j \in 1..Len(k) : s[i + j - 1] = k[j]

\* Python's  k in s
Contains(s, k) == \E i \in 1..(Len(s) - Len(k) + 1) : OccursAt(s, k, i)

\* str.find: the first position of k in s, 0 when there is none
Find(s, k) ==
    IF Contains(s, k)
    THEN CHOOSE i \in 1..(Len(s) - Len(k) + 1) :
            /\ OccursAt(s, k, i)
            /\ \A j \in 1..(i - 1) : ~OccursAt(s, k, j)
    ELSE 0

\* the first position >= i of s holding a character outside set, Len(s)+1 when none
FirstNotIn(s, i, set) ==
    CHOOSE j \in i..(Len(s) + 1) :
        /\ (j = Len(s) + 1 \/ s[j] \notin set)
        /\ \A k \in i..(j - 1) : s[k] \in set

\* the first position >= i of s holding a character of set, Len(s)+1 when none
FirstIn(s, i, set) ==
    CHOOSE j \in i..(Len(s) + 1) :
        /\ (j = Len(s) + 1 \/ s[j] \in set)
        /\ \A k \in i..(j - 1) : s[k] \notin set

\* the last position of s holding a character outside set, 0 when none
LastNotIn(s, set) ==
    CHOOSE j \in 0..Len(s) :
        /\ (j = 0 \/ s[j] \notin set)
        /\ \A k \in (j + 1)..Len(s) : s[k] \in set

\* str.strip()
Strip(s) == Slice(s, FirstNotIn(s, 1, Whitespace), LastNotIn(s, Whitespace))

RECURSIVE Concat(_)
\* "".join(parts)
Concat(parts) ==
    IF parts = <<>> THEN <<>>
    ELSE IF Len(parts) = 1 THEN parts[1]
    ELSE LET m == Len(parts) \div 2
         IN  Concat(SubSeq(parts, 1, m)) \o Concat(SubSeq(parts, m + 1, Len(parts)))

RECURSIVE Join(_, _)
\* sep.join(parts)
Join(sep, parts) ==
    IF parts = <<>> THEN <<>>
    ELSE IF Len(parts) = 1 THEN parts[1]
    ELSE parts[1] \o sep \o Join(sep, Tail(parts))

(***************************************************************************)
(* Python values                                                           *)
(***************************************************************************)
PyNone == [type |-> "none"]

PyBool(b) == [type |-> "bool", b |-> b]

PyStr(s) == [type |-> "str", s |-> s]

\* a number, kept as its lexeme
PyNum(lex) == [type |-> "num", lex |-> lex]

PyList(items) == [type |-> "list", items |-> items]

\* a dict keeps insertion order: a sequence of <<key, value>> with distinct keys
PyDict(items) == [type |-> "dict", items |-> items]

\* Python truthiness
Truthy(v) ==
    CASE v.type = "none" -> FALSE
      [] v.type = "bool" -> v.b
      [] v.type = "str"  -> v.s # <<>>
      [] v.type = "num"  ->
            \E i \in 1..(FirstIn(v.lex, 1, {"e", "E"}) - 1) :
                v.lex[i] \in (Digits \ {"0"}) \/ v.lex[i] \in {"N", "I"}
      [] v.type = "list" -> v.items # <<>>
      [] v.type = "dict" -> v.items # <<>>
      [] OTHER -> TRUE

Keys(d) == {d.items[i][1] : i \in DOMAIN d.items}

HasKey(d, k) == k \in Keys(d)

\* d[k], for a key d holds
Item(d, k) == d.items[CHOOSE i \in DOMAIN d.items : d.items[i][1] = k][2]

\* d.get(k, default)
GetOr(d, k, default) == IF HasKey(d, k) THEN Item(d, k) ELSE default

\* d.get(k)
Get(d, k) == GetOr(d, k, PyNone)

\* d[k] = v
SetItem(d, k, v) ==
    IF HasKey(d, k)
    THEN PyDict([i \in DOMAIN d.items |->
                    IF d.items[i][1] = k THEN <<k, v>> ELSE d.items[i]])
    ELSE PyDict(Append(d.items, <<k, v>>))

\* a or b
Or(a, b) == IF Truthy(a) THEN a ELSE b

(***************************************************************************)
(* json.dumps (default separators, ensure_ascii) and json.loads            *)
(***************************************************************************)
Quote == "\""

Backslash == "\\"

\* the non-ASCII characters of the program's texts, with their \uxxxx digits
UnicodeTable ==
    << <<"U+2019", <<"2","0","1","9">> >>,
       <<"U+201c", <<"2","0","1","c">> >>,
       <<"U+201d", <<"2","0","1","d">> >>,
       <<"U+2013", <<"2","0","1","3">> >>,
       <<"U+2022", <<"2","0","2","2">> >> >>

HexDigits == Digits \cup {"a","b","c","d","e","f","A","B","C","D","E","F"}

\* the two-character escapes: <<escaped character, character after the backslash>>
ShortEscapes ==
    << <<Quote, Quote>>, <<Backslash, Backslash>>, <<"\n", "n">>,
       <<"\t", "t">>, <<"\r", "r">> >>

\* py_encode_basestring_ascii on one character
EscapeChar(c) ==
    IF \E i \in DOMAIN ShortEscapes : ShortEscapes[i][1] = c
    THEN <<Backslash, ShortEscapes[CHOOSE i \in DOMAIN ShortEscapes : ShortEscapes[i][1] = c][2]>>
    ELSE IF \E i \in DOMAIN UnicodeTable : UnicodeTable[i][1] = c
    THEN <<Backslash, "u">> \o UnicodeTable[CHOOSE i \in DOMAIN UnicodeTable : UnicodeTable[i][1] = c][2]
    ELSE <<c>>

\* a str as a JSON string literal
DumpStr(s) == <<Quote>> \o Concat([i \in 1..Len(s) |-> EscapeChar(s[i])]) \o <<Quote>>

RECURSIVE json_dumps(_)
json_dumps(v) ==
    CASE v.type = "none" -> <<"n","u","l","l">>
      [] v.type = "bool" -> IF v.b THEN <<"t","r","u","e">> ELSE <<"f","a","l","s","e">>
      [] v.type = "str"  -> DumpStr(v.s)
      [] v.type = "num"  -> v.lex
      [] v.type = "list" ->
            <<"[">> \o Join(<<",", " ">>, [i \in DOMAIN v.items |-> json_dumps(v.items[i])]) \o <<"]">>
      [] v.type = "dict" ->
            <<"{">>
            \o Join(<<",", " ">>,
                    [i \in DOMAIN v.items |->
                        DumpStr(v.items[i][1]) \o <<":", " ">> \o json_dumps(v.items[i][2])])
            \o <<"}">>

\* a failed parse (json.JSONDecodeError)
NoParse == [ok |-> FALSE, val |-> PyNone, pos |-> 0]

Parsed(v, next) == [ok |-> TRUE, val |-> v, pos |-> next]

\* the characters that end a run of plain characters inside a string literal
StringSpecials == {Quote, Backslash, "\n", "\t", "\r"}

\* the character a \uxxxx escape names
UnicodeChar(hex) ==
    IF \E i \in DOMAIN UnicodeTable : Lower(UnicodeTable[i][2]) = Lower(hex)
    THEN UnicodeTable[CHOOSE i \in DOMAIN UnicodeTable : Lower(UnicodeTable[i][2]) = Lower(hex)][1]
    ELSE "U+" \o hex[1] \o hex[2] \o hex[3] \o hex[4]

RECURSIVE ScanString(_, _, _)
\* the body of a string literal from position i on, acc the characters read so far
ScanString(t, i, acc) ==
    LET j == FirstIn(t, i, StringSpecials)
        run == acc \o Slice(t, i, j - 1)
    IN  IF j > Len(t) THEN NoParse
        ELSE IF t[j] = Quote THEN Parsed(run, j + 1)
        ELSE IF t[j] # Backslash THEN NoParse       \* a raw control character
        ELSE IF j + 1 > Len(t) THEN NoParse
        ELSE IF t[j + 1] = "u"
        THEN IF j + 5 <= Len(t) /\ \A k \in (j + 2)..(j + 5) : t[k] \in HexDigits
             THEN ScanString(t, j + 6, Append(run, UnicodeChar(Slice(t, j + 2, j + 5))))
             ELSE NoParse
        ELSE IF t[j + 1] = "/" THEN ScanString(t, j + 2, Append(run, "/"))
        ELSE IF \E e \in DOMAIN ShortEscapes : ShortEscapes[e][2] = t[j + 1]
        THEN ScanString(t, j + 2,
                Append(run, ShortEscapes[CHOOSE e \in DOMAIN ShortEscapes : ShortEscapes[e][2] = t[j + 1]][1]))
        ELSE NoParse

\* a number lexeme at position i: -?(0|[1-9]\d*)(\.\d+)?([eE][+-]?\d+)?
ScanNumber(t, i) ==
    LET d0   == IF i <= Len(t) /\ t[i] = "-" THEN i + 1 ELSE i
        iEnd == IF d0 <= Len(t) /\ t[d0] = "0" THEN d0 + 1 ELSE FirstNotIn(t, d0, Digits)
        fEnd == IF iEnd + 1 <= Len(t) /\ t[iEnd] = "." /\ t[iEnd + 1] \in Digits
                THEN FirstNotIn(t, iEnd + 1, Digits) ELSE iEnd
        s0   == IF fEnd + 1 <= Len(t) /\ t[fEnd] \in {"e", "E"} /\ t[fEnd + 1] \in {"+", "-"}
                THEN fEnd + 2 ELSE fEnd + 1
        eEnd == IF fEnd <= Len(t) /\ t[fEnd] \in {"e", "E"} /\ s0 <= Len(t) /\ t[s0] \in Digits
                THEN FirstNotIn(t, s0, Digits) ELSE fEnd
    IN  IF iEnd = d0 THEN NoParse ELSE Parsed(PyNum(Slice(t, i, eEnd - 1)), eEnd)

\* the word constants json.loads accepts
JsonWords ==
    << <<<<"n","u","l","l">>, PyNone>>,
       <<<<"t","r","u","e">>, PyBool(TRUE)>>,
       <<<<"f","a","l","s","e">>, PyBool(FALSE)>>,
       <<<<"N","a","N">>, PyNum(<<"N","a","N">>)>>,
       <<<<"I","n","f","i","n","i","t","y">>, PyNum(<<"I","n","f","i","n","i","t","y">>)>>,
       <<<<"-","I","n","f","i","n","i","t","y">>, PyNum(<<"-","I","n","f","i","n","i","t","y">>)>> >>

SkipWs(t, i) == FirstNotIn(t, i, Whitespace)

RECURSIVE ParseValue(_, _), ParseMembers(_, _, _), ParseElements(_, _, _)

\* JSONDecoder.scan_once at position i
ParseValue(t, i) ==
    IF i > Len(t) THEN NoParse
    ELSE IF t[i] = Quote THEN
        LET r == ScanString(t, i + 1, <<>>)
        IN  IF r.ok THEN Parsed(PyStr(r.val), r.pos) ELSE NoParse
    ELSE IF t[i] = "{" THEN
        LET j == SkipWs(t, i + 1)
        IN  IF j <= Len(t) /\ t[j] = "}" THEN Parsed(PyDict(<<>>), j + 1)
            ELSE ParseMembers(t, j, PyDict(<<>>))
    ELSE IF t[i] = "[" THEN
        LET j == SkipWs(t, i + 1)
        IN  IF j <= Len(t) /\ t[j] = "]" THEN Parsed(PyList(<<>>), j + 1)
            ELSE ParseElements(t, j, <<>>)
    ELSE IF \E w \in DOMAIN JsonWords : OccursAt(t, JsonWords[w][1], i)
    THEN LET w == CHOOSE w \in DOMAIN JsonWords : OccursAt(t, JsonWords[w][1], i)
         IN  Parsed(JsonWords[w][2], i + Len(JsonWords[w][1]))
    ELSE ScanNumber(t, i)

\* the members of an object from position i (at a key) on; a repeated key keeps its
\* first place and takes the last value, as a dict does
ParseMembers(t, i, acc) ==
    IF i > Len(t) \/ t[i] # Quote THEN NoParse
    ELSE
        LET k == ScanString(t, i + 1, <<>>)
        IN  IF ~k.ok THEN NoParse
            ELSE
                LET c == SkipWs(t, k.pos)
                IN  IF c > Len(t) \/ t[c] # ":" THEN NoParse
                    ELSE
                        LET v == ParseValue(t, SkipWs(t, c + 1))
                        IN  IF ~v.ok THEN NoParse
                            ELSE
                                LET e    == SkipWs(t, v.pos)
                                    acc2 == SetItem(acc, k.val, v.val)
                                IN  IF e > Len(t) THEN NoParse
                                    ELSE IF t[e] = "}" THEN Parsed(acc2, e + 1)
                                    ELSE IF t[e] = "," THEN ParseMembers(t, SkipWs(t, e + 1), acc2)
                                    ELSE NoParse

\* the elements of an array from position i on
ParseElements(t, i, acc) ==
    LET v == ParseValue(t, i)
    IN  IF ~v.ok THEN NoParse
        ELSE
            LET e    == SkipWs(t, v.pos)
                acc2 == Append(acc, v.val)
            IN  IF e > Len(t) THEN NoParse
                ELSE IF t[e] = "]" THEN Parsed(PyList(acc2), e + 1)
                ELSE IF t[e] = "," THEN ParseElements(t, SkipWs(t, e + 1), acc2)
                ELSE NoParse

\* json.loads(t): ok = FALSE models the JSONDecodeError
json_loads(t) ==
    LET r == ParseValue(t, SkipWs(t, 1))
    IN  IF r.ok /\ SkipWs(t, r.pos) = Len(t) + 1 THEN r ELSE NoParse

(***************************************************************************)
(* String literals                                                         *)
(***************************************************************************)
\* the string literals of the source, as character sequences
\* the dict keys and tags tool_router of agents/graph.py reads and writes
RouterKey ==
    [
     answer |-> <<"a","n","s","w","e","r">>,
     call_tool |-> <<"c","a","l","l","_","t","o","o","l">>,
     name |-> <<"n","a","m","e">>,
     params |-> <<"p","a","r","a","m","s">>,
     to |-> <<"t","o">>,
     message |-> <<"m","e","s","s","a","g","e">>,
     subject |-> <<"s","u","b","j","e","c","t">>,
     body |-> <<"b","o","d","y">>,
     send_via_email |-> <<"s","e","n","d","_","v","i","a","_","e","m","a","i","l">>,
     send_via_whatsapp |-> <<"s","e","n","d","_","v","i","a","_","w","h","a","t","s","a","p","p">>,
     attendees_emails |-> <<"a","t","t","e","n","d","e","e","s","_","e","m","a","i","l","s">>,
     whatsapp_to |-> <<"w","h","a","t","s","a","p","p","_","t","o">>,
     contact_email |-> <<"c","o","n","t","a","c","t","_","e","m","a","i","l">>,
     contact_phone |-> <<"c","o","n","t","a","c","t","_","p","h","o","n","e">>,
     tool |-> <<"t","o","o","l">>,
     action |-> <<"a","c","t","i","o","n">>,
     whatsapp |-> <<"w","h","a","t","s","a","p","p">>,
     email |-> <<"e","m","a","i","l">>,
     calendar |-> <<"c","a","l","e","n","d","a","r">>,
     BizGenie_Notification |-> <<"B","i","z","G","e","n","i","e"," ","N","o","t","i","f","i","c","a","t","i",
           "o","n">>
    ]

\* the action names tool_router knows
ToolName ==
    [
     send_whatsapp_message |-> <<"s","e","n","d","_","w","h","a","t","s","a","p","p","_","m","e","s","s","a",
           "g","e">>,
     send_whatsapp_confirmation |-> <<"s","e","n","d","_","w","h","a","t","s","a","p","p","_","c","o","n","f","i",
           "r","m","a","t","i","o","n">>,
     send_whatsapp_update |-> <<"s","e","n","d","_","w","h","a","t","s","a","p","p","_","u","p","d","a","t",
           "e">>,
     send_whatsapp_cancellation |-> <<"s","e","n","d","_","w","h","a","t","s","a","p","p","_","c","a","n","c","e",
           "l","l","a","t","i","o","n">>,
     send_whatsapp_followup |-> <<"s","e","n","d","_","w","h","a","t","s","a","p","p","_","f","o","l","l","o",
           "w","u","p">>,
     send_email |-> <<"s","e","n","d","_","e","m","a","i","l">>,
     send_email_confirmation |-> <<"s","e","n","d","_","e","m","a","i","l","_","c","o","n","f","i","r","m","a",
           "t","i","o","n">>,
     send_email_update |-> <<"s","e","n","d","_","e","m","a","i","l","_","u","p","d","a","t","e">>,
     send_email_cancellation |-> <<"s","e","n","d","_","e","m","a","i","l","_","c","a","n","c","e","l","l","a",
           "t","i","o","n">>,
     send_email_reminder |-> <<"s","e","n","d","_","e","m","a","i","l","_","r","e","m","i","n","d","e","r">>,
     send_email_followup |-> <<"s","e","n","d","_","e","m","a","i","l","_","f","o","l","l","o","w","u","p">>,
     create_event |-> <<"c","r","e","a","t","e","_","e","v","e","n","t">>,
     update_event |-> <<"u","p","d","a","t","e","_","e","v","e","n","t">>,
     cancel_event |-> <<"c","a","n","c","e","l","_","e","v","e","n","t">>
    ]

\* the keys generate_answer and _fallback_from_metadata of nodes/rag.py use
RagKey ==
    [
     title |-> <<"t","i","t","l","e">>,
     description |-> <<"d","e","s","c","r","i","p","t","i","o","n">>,
     start_dt |-> <<"s","t","a","r","t","_","d","t">>,
     location |-> <<"l","o","c","a","t","i","o","n">>,
     address |-> <<"a","d","d","r","e","s","s">>,
     services |-> <<"s","e","r","v","i","c","e","s">>,
     working_hours |-> <<"w","o","r","k","i","n","g","_","h","o","u","r","s">>,
     open |-> <<"o","p","e","n">>,
     close |-> <<"c","l","o","s","e">>,
     this_business |-> <<"t","h","i","s"," ","b","u","s","i","n","e","s","s">>
    ]

\* parameter names of the senders of tools/email_mcp.py
SenderKey ==
    [
     attachments |-> <<"a","t","t","a","c","h","m","e","n","t","s">>,
     start |-> <<"s","t","a","r","t">>,
     end |-> <<"e","n","d">>,
     new_start |-> <<"n","e","w","_","s","t","a","r","t">>,
     new_end |-> <<"n","e","w","_","e","n","d">>,
     reason |-> <<"r","e","a","s","o","n">>,
     last_message |-> <<"l","a","s","t","_","m","e","s","s","a","g","e">>
    ]

\* optional parameters of send_whatsapp_message
WhatsappKey ==
    [
     type |-> <<"t","y","p","e">>,
     template |-> <<"t","e","m","p","l","a","t","e">>
    ]

\* the parameter of create_event the other senders do not have
CalendarKey ==
    [
     end_dt |-> <<"e","n","d","_","d","t">>
    ]

(***************************************************************************)
(* app/agents/nodes/rag.py                                                 *)
(***************************************************************************)
BOOKING_KEYWORDS ==
    << <<"b","o","o","k">>,
       <<"a","p","p","o","i","n","t","m","e","n","t">>,
       <<"s","c","h","e","d","u","l","e">>,
       <<"s","l","o","t">>,
       <<"r","e","s","e","r","v","e">>,
       <<"r","e","s","c","h","e","d","u","l","e">>,
       <<"c","a","n","c","e","l"," ","m","y"," ","a","p","p","o","i","n","t","m","e","n","t">>,
       <<"c","h","a","n","g","e"," ","m","y"," ","a","p","p","o","i","n","t","m","e","n","t">>,
       <<"c","o","n","f","i","r","m"," ","a","p","p","o","i","n","t","m","e","n","t">>,
       <<"b","o","o","k"," ","a","n"," ","a","p","p","o","i","n","t","m","e","n","t">>,
       <<"f","i","x"," ","a","n"," ","a","p","p","o","i","n","t","m","e","n","t">> >>

WHATSAPP_KEYWORDS ==
    << <<"w","h","a","t","s","a","p","p">>,
       <<"s","e","n","d"," ","m","e","s","s","a","g","e">>,
       <<"t","e","x","t"," ","m","e">>,
       <<"s","e","n","d"," ","m","e"," ","a"," ","w","h","a","t","s","a","p","p">>,
       <<"w","h","a","t","s"," ","a","p","p">> >>

\* a regular expression of character classes: "\\d" is a digit, anything else itself
DatePattern == <<"\\d","\\d","\\d","\\d","-","\\d","\\d","-","\\d","\\d">>

TimePattern == <<"\\d","\\d",":","\\d","\\d">>

\* whether pattern matches s at position i
MatchesAt(s, pattern, i) ==
    /\ i >= 1
    /\ i + Len(pattern) - 1 <= Len(s)
    /\ \A j \in 1..Len(pattern) :
            IF pattern[j] = "\\d" THEN s[i + j - 1] \in Digits ELSE s[i + j - 1] = pattern[j]

\* re.search(pattern, s): the leftmost match as a str, None when there is none
re_search(pattern, s) ==
    IF \E i \in 1..(Len(s) - Len(pattern) + 1) : MatchesAt(s, pattern, i)
    THEN LET i == CHOOSE i \in 1..(Len(s) - Len(pattern) + 1) :
                    /\ MatchesAt(s, pattern, i)
                    /\ \A j \in 1..(i - 1) : ~MatchesAt(s, pattern, j)
         IN  PyStr(Slice(s, i, i + Len(pattern) - 1))
    ELSE PyNone

\* (date, time), each a str or None
extract_datetime(user_message) ==
    [date |-> re_search(DatePattern, user_message),
     time |-> re_search(TimePattern, user_message)]

\* a variant of user_wants_tool that looks for the booking keywords alone
user_wants_tool_BookingOnly(user_message) ==
    LET text == Lower(user_message)
    IN  \E k \in DOMAIN BOOKING_KEYWORDS : Contains(text, BOOKING_KEYWORDS[k])

user_wants_tool(user_message) ==
    LET text == Lower(user_message)
    IN  \/ \E k \in DOMAIN BOOKING_KEYWORDS : Contains(text, BOOKING_KEYWORDS[k])
        \/ \E k \in DOMAIN WHATSAPP_KEYWORDS : Contains(text, WHATSAPP_KEYWORDS[k])

ClarificationText ==
    <<"I"," ","c","a","n"," ","h","e","l","p"," ","y","o","u"," ","w","i","t","h"," ","a","p","p",
    "o","i","n","t","m","e","n","t","s"," ","o","r"," ","W","h","a","t","s","A","p","p"," ","m",
    "e","s","s","a","g","e","s","."," ","P","l","e","a","s","e"," ","s","h","a","r","e"," ","t",
    "h","e"," ","e","x","a","c","t"," ","d","a","t","e"," ","(","Y","Y","Y","Y","-","M","M","-",
    "D","D",")"," ","a","n","d"," ","t","i","m","e"," ","(","H","H",":","M","M",")"," ","y","o",
    "u","U+2019","d"," ","l","i","k","e"," ","f","o","r"," ","t","h","e"," ","a","p","p","o",
    "i","n","t","m","e","n","t",","," ","o","r"," ","c","l","a","r","i","f","y"," ","w","h","a",
    "t"," ","y","o","u","U+2019","d"," ","l","i","k","e"," ","m","e"," ","t","o"," ","s","e",
    "n","d",".">>

\* f"Great, I’ll book an appointment for you on {date} at {time}. You’ll receive a confirmation shortly."
BookingAnswerText(date, time) ==
    <<"G","r","e","a","t",","," ","I","U+2019","l","l"," ","b","o","o","k"," ","a","n"," ","a","p",
    "p","o","i","n","t","m","e","n","t"," ","f","o","r"," ","y","o","u"," ","o","n"," ">>
    \o date \o <<" ","a","t"," ">> \o time
    \o <<"."," ","Y","o","u","U+2019","l","l"," ","r","e","c","e","i","v","e"," ","a"," ","c","o","n",
    "f","i","r","m","a","t","i","o","n"," ","s","h","o","r","t","l","y",".">>

\* f"Appointment on {date} at {time}"
BookingTitle(date, time) ==
    <<"A","p","p","o","i","n","t","m","e","n","t"," ","o","n"," ">> \o date \o <<" ","a","t"," ">> \o time

\* str.capitalize()
Capitalize(s) ==
    [i \in 1..Len(s) |->
        IF i = 1 /\ \E u \in DOMAIN Lowers : Lowers[u] = s[1]
        THEN Uppers[CHOOSE u \in DOMAIN Lowers : Lowers[u] = s[1]]
        ELSE IF i = 1 THEN s[1] ELSE LowerChar(s[i])]

\* the "Working hours" lines of _fallback_from_metadata: one per day with open and close
HoursLines(hours) ==
    LET shown == SelectSeq(hours.items,
                    LAMBDA e : /\ Truthy(e[2])
                               /\ Truthy(Get(e[2], RagKey.open))
                               /\ Truthy(Get(e[2], RagKey.close)))
    IN  [i \in DOMAIN shown |->
            <<" "," ","-"," ">> \o Capitalize(shown[i][1]) \o <<":"," ">>
            \o Get(shown[i][2], RagKey.open).s \o <<"U+2013">> \o Get(shown[i][2], RagKey.close).s]

_fallback_from_metadata(question, meta) ==
    LET name     == GetOr(meta, RouterKey.name, PyStr(RagKey.this_business))
        services == Or(Get(meta, RagKey.services), PyList(<<>>))
        hours    == Or(Get(meta, RagKey.working_hours), PyDict(<<>>))
        email    == Or(Get(meta, RouterKey.contact_email), PyStr(<<>>))
        phone    == Or(Get(meta, RouterKey.contact_phone), PyStr(<<>>))
        ans ==
            << <<"H","e","r","e","'","s"," ","w","h","a","t"," ","I"," ","c","a","n"," ","t","e","l","l"," ",
        "y","o","u"," ","a","b","o","u","t"," ">> \o name.s \o <<":">> >>
            \o (IF Truthy(services)
                THEN << <<"\n","U+2022"," ","S","e","r","v","i","c","e","s",":"," ">>
                        \o Join(<<",", " ">>, [i \in DOMAIN services.items |-> services.items[i].s]) >>
                ELSE <<>>)
            \o (IF Truthy(hours)
                THEN << <<"\n","U+2022"," ","W","o","r","k","i","n","g"," ","h","o","u","r","s",":">> >> \o HoursLines(hours)
                ELSE <<>>)
            \o (IF Truthy(email) \/ Truthy(phone)
                THEN << <<"\n","U+2022"," ","C","o","n","t","a","c","t",":">> >>
                     \o (IF Truthy(email)
                         THEN << <<" "," ","-"," ","E","m","a","i","l",":"," ">> \o email.s >> ELSE <<>>)
                     \o (IF Truthy(phone)
                         THEN << <<" "," ","-"," ","P","h","o","n","e","/","W","h","a","t","s","A","p","p",":"," ">> \o phone.s >> ELSE <<>>)
                ELSE <<>>)
            \o << <<"\n","Y","o","u"," ","a","s","k","e","d",":"," ","U+201c">> \o question
                  \o <<"U+201d","."," ","I"," ","c","a","n"," ","a","l","s","o"," ","h","e","l","p"," ","y","o","u",
        " ","b","o","o","k"," ","a","n"," ","a","p","p","o","i","n","t","m","e","n","t"," ","i",
        "f"," ","y","o","u"," ","s","h","a","r","e"," ","a"," ","d","a","t","e"," ","a","n","d",
        " ","t","i","m","e",".">> >>
    IN  Join(<<"\n">>, ans)

(***************************************************************************)
(* app/llm_service.py                                                      *)
(***************************************************************************)
\* LLMService._fallback(prompt, context=None)
LlmFallbackText ==
    <<"I","'","m"," ","h","a","v","i","n","g"," ","a"," ","l","i","t","t","l","e"," ","t","r","o",
    "u","b","l","e"," ","p","r","o","c","e","s","s","i","n","g"," ","t","h","i","s"," ","r","i",
    "g","h","t"," ","n","o","w"," ","o","n"," ","t","h","e"," ","A","I"," ","s","i","d","e",",",
    " ","b","u","t"," ","y","o","u","r"," ","m","e","s","s","a","g","e"," ","h","a","s"," ","b",
    "e","e","n"," ","r","e","c","e","i","v","e","d","."," ","Y","o","u"," ","c","a","n"," ","t",
    "r","y"," ","a","s","k","i","n","g"," ","a","g","a","i","n"," ","o","r"," ","c","o","n","t",
    "a","c","t"," ","u","s"," ","d","i","r","e","c","t","l","y",".">>

AnswerMarkers ==
    << <<"A","N","S","W","E","R",":">>, <<"A","n","s","w","e","r",":">>, <<"A","n","s","w","e","r",":">>, <<"a","n","s","w","e","r",":">> >>

\* the text after the first marker it holds, stripped; the text itself without one
CutAtMarker(text) ==
    IF \E m \in DOMAIN AnswerMarkers : Contains(text, AnswerMarkers[m])
    THEN LET m == CHOOSE m \in DOMAIN AnswerMarkers :
                    /\ Contains(text, AnswerMarkers[m])
                    /\ \A n \in 1..(m - 1) : ~Contains(text, AnswerMarkers[n])
             at == Find(text, AnswerMarkers[m])
         IN  Strip(Slice(text, at + Len(AnswerMarkers[m]), Len(text)))
    ELSE text

\* LLMService.generate(prompt): hf is what the inference API did, one of
\*   [kind |-> "no_key"], [kind |-> "status"], [kind |-> "exception"],
\*   [kind |-> "text", text |-> the generated_text]
generate(hf) ==
    IF hf.kind # "text" THEN LlmFallbackText
    ELSE LET clean == Strip(CutAtMarker(hf.text))
         IN  IF clean = <<>> THEN LlmFallbackText ELSE clean

(***************************************************************************)
(* generate_answer                                                         *)
(***************************************************************************)
\* the structured payload of the fast path
BookingPayload(user_message, meta, date, time) ==
    PyDict(<<
        <<RouterKey.answer, PyStr(BookingAnswerText(date, time))>>,
        <<RouterKey.call_tool, PyDict(<<
            <<RouterKey.name, PyStr(ToolName.create_event)>>,
            <<RouterKey.params, PyDict(<<
                <<RagKey.title, PyStr(BookingTitle(date, time))>>,
                <<RagKey.description, PyStr(user_message)>>,
                <<RagKey.start_dt, PyStr(date \o <<"T">> \o time)>>,
                <<RagKey.location, Get(meta, RagKey.address)>>,
                <<RouterKey.send_via_email, PyBool(TRUE)>>,
                <<RouterKey.send_via_whatsapp, PyBool(Truthy(Get(meta, RouterKey.contact_phone)))>> >>)>> >>)>> >>)

\* a variant of NeedsClarification that asks only when date and time are both missing
NeedsClarification_BothMissing(wants_tool, date, time) ==
    wants_tool /\ ~Truthy(date) /\ ~Truthy(time)

\* if wants_tool and (not date or not time):
NeedsClarification(wants_tool, date, time) ==
    wants_tool /\ (~Truthy(date) \/ ~Truthy(time))

\* generate_answer(business_id, user_message, metadata_context): query is what
\* vector_store.query_documents did ([raised, docs]), hf what the inference API did
generate_answer(user_message, meta, query, hf) ==
    LET docs       == IF query.raised THEN <<>> ELSE query.docs
        wants_tool == user_wants_tool(user_message)
        dt         == extract_datetime(user_message)
        llm        == Strip(generate(hf))
        reply      ==
            IF wants_tool /\ Truthy(dt.date) /\ Truthy(dt.time)
            THEN json_dumps(BookingPayload(user_message, meta, dt.date.s, dt.time.s))
            ELSE IF NeedsClarification(wants_tool, dt.date, dt.time)
            THEN ClarificationText
            ELSE IF llm = <<>> THEN _fallback_from_metadata(user_message, meta)
            ELSE llm
    IN  [reply |-> reply,
         documents_used |-> Len(docs),
         metadata_context |-> meta,
         \* how many times llm_service.generate(prompt) was called
         llm_calls |-> IF wants_tool /\ Truthy(dt.date) /\ Truthy(dt.time) THEN 0
                       ELSE IF NeedsClarification(wants_tool, dt.date, dt.time) THEN 0
                       ELSE 1]

(***************************************************************************)
(* The senders' signatures: a call that spreads params binds them to these *)
(***************************************************************************)
Signature(required, optional) == [required |-> required, optional |-> optional]

\* app/tools/email_mcp.py, app/tools/whatsapp_mcp.py, app/tools/calendar_mcp.py
SenderSignature(func) ==
    CASE func = ToolName.send_whatsapp_message ->
            Signature({RouterKey.to, RouterKey.message}, {WhatsappKey.type, WhatsappKey.template})
      [] func = ToolName.send_email ->
            Signature({RouterKey.to, RouterKey.subject, RouterKey.body}, {SenderKey.attachments})
      [] func = ToolName.send_email_confirmation ->
            Signature({RouterKey.to, RagKey.title, SenderKey.start, SenderKey.end}, {RagKey.location})
      [] func = ToolName.send_email_update ->
            Signature({RouterKey.to, RagKey.title, SenderKey.new_start, SenderKey.new_end}, {RagKey.location})
      [] func = ToolName.send_email_cancellation ->
            Signature({RouterKey.to, RagKey.title}, {SenderKey.reason})
      [] func = ToolName.send_email_reminder ->
            Signature({RouterKey.to, RagKey.title, SenderKey.start}, {})
      [] func = ToolName.send_email_followup ->
            Signature({RouterKey.to, RagKey.title}, {SenderKey.last_message})
      [] func = ToolName.create_event ->
            Signature({RagKey.title, RagKey.start_dt, CalendarKey.end_dt, RagKey.description, RouterKey.attendees_emails},
                      {RagKey.location, RouterKey.send_via_email, RouterKey.send_via_whatsapp})
      [] func = ToolName.update_event ->
            Signature({RagKey.title, SenderKey.new_start, SenderKey.new_end, RagKey.description, RouterKey.attendees_emails},
                      {RagKey.location, RouterKey.send_via_email, RouterKey.send_via_whatsapp})
      [] func = ToolName.cancel_event ->
            Signature({RagKey.title, RouterKey.attendees_emails},
                      {RouterKey.send_via_email, RouterKey.send_via_whatsapp, SenderKey.reason})

\* graph.py imports send_whatsapp_confirmation, _update, _cancellation and _followup
\* from whatsapp_mcp, which does not define them: they are taken to mirror the
\* email wrappers of the same names
WhatsappWrapperSignature(func) ==
    CASE func = ToolName.send_whatsapp_confirmation -> SenderSignature(ToolName.send_email_confirmation)
      [] func = ToolName.send_whatsapp_update       -> SenderSignature(ToolName.send_email_update)
      [] func = ToolName.send_whatsapp_cancellation -> SenderSignature(ToolName.send_email_cancellation)
      [] func = ToolName.send_whatsapp_followup     -> SenderSignature(ToolName.send_email_followup)

WhatsappWrappers ==
    {ToolName.send_whatsapp_confirmation, ToolName.send_whatsapp_update,
     ToolName.send_whatsapp_cancellation, ToolName.send_whatsapp_followup}

EmailWrappers ==
    {ToolName.send_email_confirmation, ToolName.send_email_update, ToolName.send_email_cancellation,
     ToolName.send_email_reminder, ToolName.send_email_followup}

SignatureOf(func) ==
    IF func \in WhatsappWrappers THEN WhatsappWrapperSignature(func) ELSE SenderSignature(func)

\* whether a call spreading kwargs binds: kwargs is a mapping, gives every required
\* parameter and no unknown one (a TypeError otherwise)
Binds(func, kwargs) ==
    /\ kwargs.type = "dict"
    /\ SignatureOf(func).required \subseteq Keys(kwargs)
    /\ Keys(kwargs) \subseteq (SignatureOf(func).required \cup SignatureOf(func).optional)

(***************************************************************************)
(* app/agents/graph.py: tool_router                                        *)
(***************************************************************************)
\* a coroutine object: the sender called with its arguments, not yet run
Coroutine(func, kwargs, label) == [func |-> func, kwargs |-> kwargs, label |-> label]

\* what a call of tool_router did: the exception it raised ("none": it returned),
\* the dict it returned, and the coroutines it handed to _schedule, in order
Returned(reply, actions, coros) ==
    [exc |-> "none", reply |-> reply, tool_actions |-> actions, coros |-> coros]

Raised(exc) ==
    [exc |-> exc, reply |-> PyNone, tool_actions |-> <<>>, coros |-> <<>>]

\* {"tool": tool, "action": action}
ActionEntry(tool, action) ==
    PyDict(<< <<RouterKey.tool, PyStr(tool)>>, <<RouterKey.action, action>> >>)

\* a variant of ActionEntryTo that leaves the destination out of the entry
ActionEntryTo_WithoutTo(tool, action, to) ==
    PyDict(<< <<RouterKey.tool, PyStr(tool)>>, <<RouterKey.action, action>> >>)

\* {"tool": tool, "action": action, "to": to}
ActionEntryTo(tool, action, to) ==
    PyDict(<< <<RouterKey.tool, PyStr(tool)>>, <<RouterKey.action, action>>, <<RouterKey.to, to>> >>)

\* a variant of PlainTextResult that trims the text of its last character
PlainTextResult_Trimmed(reply) ==
    Returned(PyStr(Slice(reply, 1, Len(reply) - 1)), <<>>, <<>>)

\* except Exception: return {"reply": reply, "tool_actions": []}
PlainTextResult(reply) == Returned(PyStr(reply), <<>>, <<>>)

\* data.get("answer", reply)
AnswerOrDefault(data, reply) == GetOr(data, RouterKey.answer, PyStr(reply))

\* a variant of FinalReply that falls back to the raw text only for an absent answer
FinalReply_AbsentOnly(data, reply) == GetOr(data, RouterKey.answer, PyStr(reply))

\* final_reply = data.get("answer") or reply
FinalReply(data, reply) == Or(Get(data, RouterKey.answer), PyStr(reply))

\* a variant of HasDestinationAndText that does not look at the destination
HasDestinationAndText_TextOnly(to, text) == Truthy(text)

\* if to and message:  /  if to and body:
HasDestinationAndText(to, text) == Truthy(to) /\ Truthy(text)

\* the send_whatsapp_message branch
WhatsappMessageBranch(data, params, ctx, tool_name, reply) ==
    IF params.type # "dict" THEN Raised("AttributeError")
    ELSE
        LET to      == Or(Get(params, RouterKey.to), Get(ctx, RouterKey.contact_phone))
            message == Or(Get(params, RouterKey.message), Get(data, RouterKey.answer))
        IN  IF HasDestinationAndText(to, message)
            THEN Returned(FinalReply(data, reply),
                    <<ActionEntryTo(RouterKey.whatsapp, tool_name, to)>>,
                    <<Coroutine(ToolName.send_whatsapp_message,
                        PyDict(<< <<RouterKey.to, to>>, <<RouterKey.message, message>> >>),
                        ToolName.send_whatsapp_message)>>)
            ELSE Returned(FinalReply(data, reply), <<>>, <<>>)

\* the send_email branch
EmailBranch(data, params, ctx, tool_name, reply) ==
    IF params.type # "dict" THEN Raised("AttributeError")
    ELSE
        LET to      == Or(Get(params, RouterKey.to), Get(ctx, RouterKey.contact_email))
            subject == Or(Get(params, RouterKey.subject), PyStr(RouterKey.BizGenie_Notification))
            body    == Or(Get(params, RouterKey.body), Get(data, RouterKey.answer))
        IN  IF HasDestinationAndText(to, body)
            THEN Returned(FinalReply(data, reply),
                    <<ActionEntryTo(RouterKey.email, tool_name, to)>>,
                    <<Coroutine(ToolName.send_email,
                        PyDict(<< <<RouterKey.to, to>>, <<RouterKey.subject, subject>>, <<RouterKey.body, body>> >>),
                        ToolName.send_email)>>)
            ELSE Returned(FinalReply(data, reply), <<>>, <<>>)

\* the branches that call the sender spreading params: the wrappers, update_event
\* and cancel_event
SpreadBranch(data, params, tool, tool_name, reply) ==
    IF ~Binds(tool_name.s, params) THEN Raised("TypeError")
    ELSE Returned(FinalReply(data, reply),
            <<ActionEntry(tool, tool_name)>>,
            <<Coroutine(tool_name.s, params, tool_name.s)>>)

\* the defaults the create_event branch fills in from the business context
CreateEventParams(params, ctx) ==
    LET p1 == IF Get(params, RouterKey.send_via_email) = PyNone
              THEN SetItem(params, RouterKey.send_via_email, PyBool(TRUE)) ELSE params
        p2 == IF Get(p1, RouterKey.send_via_whatsapp) = PyNone
              THEN SetItem(p1, RouterKey.send_via_whatsapp, PyBool(Truthy(Get(ctx, RouterKey.contact_phone))))
              ELSE p1
        p3 == IF ~HasKey(p2, RouterKey.attendees_emails) \/ ~Truthy(Item(p2, RouterKey.attendees_emails))
              THEN SetItem(p2, RouterKey.attendees_emails,
                      PyList(IF Truthy(Get(ctx, RouterKey.contact_email))
                             THEN <<Item(ctx, RouterKey.contact_email)>> ELSE <<>>))
              ELSE p2
    IN  IF Truthy(Get(p3, RouterKey.send_via_whatsapp)) /\ ~Truthy(Get(p3, RouterKey.whatsapp_to))
           /\ Truthy(Get(ctx, RouterKey.contact_phone))
        THEN SetItem(p3, RouterKey.whatsapp_to, Item(ctx, RouterKey.contact_phone))
        ELSE p3

\* the create_event branch
CreateEventBranch(data, params, ctx, reply) ==
    IF params.type # "dict" THEN Raised("TypeError")      \* dict(params)
    ELSE
        LET filled == CreateEventParams(params, ctx)
        IN  IF ~Binds(ToolName.create_event, filled) THEN Raised("TypeError")
            ELSE Returned(FinalReply(data, reply),
                    <<ActionEntry(RouterKey.calendar, PyStr(ToolName.create_event))>>,
                    <<Coroutine(ToolName.create_event, filled, ToolName.create_event)>>)

\* tool_router(reply, ctx) from the tool name on
Dispatch(data, params, ctx, tool_name, reply) ==
    IF tool_name = PyStr(ToolName.send_whatsapp_message)
    THEN WhatsappMessageBranch(data, params, ctx, tool_name, reply)
    ELSE IF tool_name.type = "str" /\ tool_name.s \in WhatsappWrappers
    THEN SpreadBranch(data, params, RouterKey.whatsapp, tool_name, reply)
    ELSE IF tool_name = PyStr(ToolName.send_email)
    THEN EmailBranch(data, params, ctx, tool_name, reply)
    ELSE IF tool_name.type = "str" /\ tool_name.s \in EmailWrappers
    THEN SpreadBranch(data, params, RouterKey.email, tool_name, reply)
    ELSE IF tool_name = PyStr(ToolName.create_event)
    THEN CreateEventBranch(data, params, ctx, reply)
    ELSE IF tool_name = PyStr(ToolName.update_event) \/ tool_name = PyStr(ToolName.cancel_event)
    THEN SpreadBranch(data, params, RouterKey.calendar, tool_name, reply)
    ELSE Returned(FinalReply(data, reply), <<>>, <<>>)

\* tool_router(reply, ctx) from  call = data.get("call_tool")  on, for a dict data
RouteCall(data, call, ctx, reply) ==
    IF ~Truthy(call) THEN Returned(AnswerOrDefault(data, reply), <<>>, <<>>)
    ELSE IF call.type # "dict" THEN Raised("AttributeError")            \* call.get
    ELSE IF ~Truthy(Get(call, RouterKey.name))
    THEN Returned(AnswerOrDefault(data, reply), <<>>, <<>>)
    ELSE Dispatch(data, Or(Get(call, RouterKey.params), PyDict(<<>>)), ctx, Get(call, RouterKey.name), reply)

\* tool_router(reply, ctx) after  data = json.loads(reply)
RouteParsed(parsed, ctx, reply) ==
    IF ~parsed.ok THEN PlainTextResult(reply)
    ELSE IF parsed.val.type # "dict" THEN Raised("AttributeError")      \* data.get
    ELSE RouteCall(parsed.val, Get(parsed.val, RouterKey.call_tool), ctx, reply)

tool_router(reply, ctx) == RouteParsed(json_loads(reply), ctx, reply)

(***************************************************************************)
(* app/config.py and the senders                                           *)
(***************************************************************************)
\* the fields class Config declares; reading any other attribute of settings
\* raises AttributeError
ConfigFields ==
    {"WHATSAPP_MCP_ENABLED", "WHATSAPP_API_URL", "WHATSAPP_PHONE_ID",
     "WHATSAPP_ACCESS_TOKEN", "WHATSAPP_SENDER_NAME", "EMAIL_MCP_ENABLED",
     "EMAIL_HOST", "EMAIL_PORT", "EMAIL_USERNAME", "EMAIL_PASSWORD",
     "CALENDAR_MCP_ENABLED", "CALENDAR_SENDER_EMAIL", "API_SERVICE_KEY"}

\* what running a sender did: the exception it raised ("none": it returned), the
\* result dict it returned, and the provider calls it made, in order
\* (details: the "details" of the result where a claim speaks of them)
Ran(success, message, calls) ==
    [exc |-> "none", success |-> success, message |-> message, outbound |-> calls,
     details |-> [type |-> "absent"]]

Threw(exc, calls) ==
    [exc |-> exc, success |-> FALSE, message |-> "", outbound |-> calls,
     details |-> [type |-> "absent"]]

ProviderCall(provider, to, attachments) ==
    [provider |-> provider, to |-> to, attachments |-> attachments]

\* email.utils.parseaddr(address)[1]: the part in angle brackets when there is
\* one, the stripped text otherwise
ParseAddr(address) ==
    LET lt == FirstIn(address, 1, {"<"})
        gt == FirstIn(address, lt + 1, {">"})
    IN  IF lt <= Len(address) /\ gt <= Len(address)
        THEN Slice(address, lt + 1, gt - 1)
        ELSE Strip(address)

\* s.split("@")[-1]: the text after the last "@" of s, s itself without one
AfterLastAt(s) ==
    LET at == CHOOSE j \in 0..Len(s) :
                /\ (j = 0 \/ s[j] = "@")
                /\ \A k \in (j + 1)..Len(s) : s[k] # "@"
    IN  Slice(s, at + 1, Len(s))

_is_valid_email(address) ==
    LET email == ParseAddr(address)
    IN  email # <<>> /\ Contains(email, <<"@">>) /\ Contains(AfterLastAt(email), <<".">>)

\* email_mcp._is_enabled()
EmailIsEnabled(cfg) ==
    cfg.EMAIL_MCP_ENABLED /\ Truthy(cfg.EMAIL_HOST) /\ Truthy(cfg.EMAIL_USERNAME)

\* email_mcp._send_message(msg): provider is what aiosmtplib.send did, one of
\* "ok", "provider_error" (an SMTPException), "error" (any other exception)
_send_message(to, attachments, cfg, provider) ==
    IF ~EmailIsEnabled(cfg)
    THEN [Ran(FALSE, "Email MCP disabled or misconfigured", <<>>)
            EXCEPT !.details = [enabled |-> cfg.EMAIL_MCP_ENABLED]]
    ELSE IF provider = "provider_error"
    THEN Ran(FALSE, "SMTP error sending email", <<ProviderCall("smtp", to, attachments)>>)
    ELSE IF provider = "error"
    THEN Threw("Exception", <<ProviderCall("smtp", to, attachments)>>)
    ELSE Ran(TRUE, "Email sent successfully", <<ProviderCall("smtp", to, attachments)>>)

\* email_mcp.send_email(to, subject, body, attachments)
send_email(to, attachments, cfg, provider) ==
    IF to.type # "str" THEN Threw("TypeError", <<>>)         \* parseaddr of a non-str
    ELSE IF ~_is_valid_email(to.s)
    THEN Ran(FALSE, "Invalid recipient email address", <<>>)
    ELSE _send_message(to, attachments, cfg, provider)

\* whatsapp_mcp.send_whatsapp_message(to, message): the payload it builds reads
\* settings.ULTRAMSG_TOKEN before _post_whatsapp is entered
send_whatsapp_message(to, message, cfg, provider) ==
    IF message.type # "str" THEN Threw("AttributeError", <<>>)   \* message.strip()
    ELSE IF "ULTRAMSG_TOKEN" \notin ConfigFields THEN Threw("AttributeError", <<>>)
    ELSE IF ~(cfg.WHATSAPP_MCP_ENABLED /\ "ULTRAMSG_TOKEN" \in ConfigFields)
    THEN Ran(FALSE, "WhatsApp MCP disabled or misconfigured", <<>>)
    ELSE IF "ULTRAMSG_INSTANCE_ID" \notin ConfigFields
    THEN Threw("AttributeError", <<>>)
    ELSE IF provider = "provider_error"
    THEN Ran(FALSE, "HTTP error sending WhatsApp message", <<ProviderCall("ultramsg", to, 0)>>)
    ELSE IF provider = "error"
    THEN Threw("Exception", <<ProviderCall("ultramsg", to, 0)>>)
    ELSE Ran(TRUE, "WhatsApp message sent", <<ProviderCall("ultramsg", to, 0)>>)

RECURSIVE SendEach(_, _, _, _, _)
\* for attendee in attendees: await send_email(to=attendee, ...), from the i-th
\* attendee on; the loop ends at the first send that raises
SendEach(attendees, i, attachments, cfg, providers) ==
    IF i > Len(attendees) THEN Ran(TRUE, "", <<>>)
    ELSE
        LET one == send_email(attendees[i], attachments, cfg, providers[i])
        IN  IF one.exc # "none" THEN one
            ELSE
                LET rest == SendEach(attendees, i + 1, attachments, cfg, providers)
                IN  [rest EXCEPT !.outbound = one.outbound \o rest.outbound]

\* if send_via_email and attendees_emails: for attendee in attendees_emails: ...
NotifyAttendees(kwargs, attachments, cfg, providers, message) ==
    LET attendees == Item(kwargs, RouterKey.attendees_emails)
    IN  IF Truthy(GetOr(kwargs, RouterKey.send_via_email, PyBool(TRUE))) /\ Truthy(attendees)
        THEN IF attendees.type # "list" THEN Threw("TypeError", <<>>)
             ELSE LET sent == SendEach(attendees.items, 1, attachments, cfg, providers)
                  IN  IF sent.exc # "none" THEN sent
                      ELSE Ran(TRUE, message, sent.outbound)
        ELSE Ran(TRUE, message, <<>>)

\* a datetime object; json.loads never makes one
IsDatetime(v) == v.type = "datetime"

\* calendar_mcp.create_event(**kwargs): generate_ics_event calls start_dt.strftime
\* and end_dt.strftime
create_event(kwargs, cfg, providers) ==
    IF ~cfg.CALENDAR_MCP_ENABLED THEN Ran(FALSE, "Calendar MCP disabled", <<>>)
    ELSE IF ~IsDatetime(Item(kwargs, RagKey.start_dt)) \/ ~IsDatetime(Item(kwargs, CalendarKey.end_dt))
    THEN Threw("AttributeError", <<>>)
    ELSE NotifyAttendees(kwargs, 1, cfg, providers, "Event created")

\* calendar_mcp.update_event(**kwargs): details calls new_start.isoformat()
update_event(kwargs, cfg, providers) ==
    IF ~IsDatetime(Item(kwargs, SenderKey.new_start)) \/ ~IsDatetime(Item(kwargs, SenderKey.new_end))
    THEN Threw("AttributeError", <<>>)
    ELSE NotifyAttendees(kwargs, 0, cfg, providers, "Event updated")

\* calendar_mcp.cancel_event(**kwargs)
cancel_event(kwargs, cfg, providers) ==
    NotifyAttendees(kwargs, 0, cfg, providers, "Event cancelled")

\* running the coroutine of a sender to its end
RunCoroutine(coro, cfg, providers) ==
    CASE coro.func = ToolName.send_email ->
            send_email(Item(coro.kwargs, RouterKey.to), 0, cfg, providers[1])
      [] coro.func \in EmailWrappers ->
            send_email(Item(coro.kwargs, RouterKey.to), 0, cfg, providers[1])
      [] coro.func = ToolName.send_whatsapp_message ->
            send_whatsapp_message(Item(coro.kwargs, RouterKey.to), Item(coro.kwargs, RouterKey.message),
                                  cfg, providers[1])
      [] coro.func \in WhatsappWrappers ->
            send_whatsapp_message(Item(coro.kwargs, RouterKey.to), PyStr(<<>>), cfg, providers[1])
      [] coro.func = ToolName.create_event -> create_event(coro.kwargs, cfg, providers)
      [] coro.func = ToolName.update_event -> update_event(coro.kwargs, cfg, providers)
      [] coro.func = ToolName.cancel_event -> cancel_event(coro.kwargs, cfg, providers)

(***************************************************************************)
(* The inputs the model draws from                                         *)
(***************************************************************************)
\* how many chunks the document store returns, at most
MaxDocs == 1

\* how many attendees a payload names, at most
MaxAttendees == 1

Fragments ==
    << <<"P","l","e","a","s","e"," ","B","O","O","K"," ">>,
       <<"a"," ","W","h","a","t","s","A","p","p"," ","m","e","s","s","a","g","e"," ">>,
       <<"b","y"," ","e","m","a","i","l"," ","o","n"," ","2","0","2","5","-","0","1","-","0","5"," ">>,
       <<"a","t"," ","1","0",":","3","0">> >>

\* the user messages: any of the fragments, in the order of Fragments
Messages ==
    {Concat([i \in DOMAIN Fragments |-> IF i \in picked THEN Fragments[i] ELSE <<>>]) :
        picked \in SUBSET DOMAIN Fragments}

\* a business: its name and its contact fields
Business ==
    [
     Acme |-> <<"A","c","m","e">>,
     owner_email |-> <<"o","@","b",".","c","o">>,
     owner_phone |-> <<"+","1","5">>
    ]

\* _business_context(business) of routes/chat.py, with or without contact fields
Context(email, phone) ==
    PyDict(<< <<RouterKey.name, PyStr(Business.Acme)>>,
              <<RagKey.services, PyList(<<>>)>>,
              <<RagKey.working_hours, PyDict(<<>>)>>,
              <<RouterKey.contact_email, email>>,
              <<RouterKey.contact_phone, phone>> >>)

Contexts ==
    {Context(e, ph) : e \in {PyNone, PyStr(Business.owner_email)}, ph \in {PyNone, PyStr(Business.owner_phone)}}

\* what vector_store.query_documents did
Queries ==
    {[raised |-> TRUE, docs |-> <<>>]}
    \cup {[raised |-> FALSE, docs |-> [i \in 1..n |-> i]] : n \in 0..MaxDocs}

\* the settings the process may run under
Settings ==
    {[WHATSAPP_MCP_ENABLED |-> on, EMAIL_MCP_ENABLED |-> on, CALENDAR_MCP_ENABLED |-> on,
      EMAIL_HOST |-> IF on THEN PyStr(<<"h">>) ELSE PyNone,
      EMAIL_USERNAME |-> IF on THEN PyStr(<<"u">>) ELSE PyNone] : on \in BOOLEAN}

ProviderOutcomes == {"ok", "provider_error", "error"}

\* a key a payload leaves out
Absent == [type |-> "absent"]

\* the dict of the pairs whose value is not Absent
Obj(pairs) == PyDict(SelectSeq(pairs, LAMBDA e : e[2] # Absent))

\* {"answer": answer, "call_tool": call}
Payload(answer, call) == Obj(<< <<RouterKey.answer, answer>>, <<RouterKey.call_tool, call>> >>)

\* {"name": name, "params": params}
ToolCall(name, params) == Obj(<< <<RouterKey.name, name>>, <<RouterKey.params, params>> >>)

\* values a generated payload holds: an answer, a customer's address and number,
\* a tool name the router does not know
Generated ==
    [
     A |-> <<"A">>,
     customer_email |-> <<"c","@","d",".","c","o">>,
     customer_phone |-> <<"+","4","4">>,
     foo |-> <<"f","o","o">>
    ]

Answers == {Absent, PyNone, PyStr(<<>>), PyStr(Generated.A)}

AttendeeLists == {PyList([i \in 1..n |-> PyStr(Generated.customer_email)]) : n \in 0..MaxAttendees}

RECURSIVE SeqOf(_)
\* the elements of a finite set, in some order
SeqOf(set) ==
    IF set = {} THEN <<>>
    ELSE LET e == CHOOSE e \in set : TRUE IN <<e>> \o SeqOf(set \ {e})

\* a value for parameter key of a sender
ParamValue(key, attendees) ==
    IF key = RouterKey.to THEN PyStr(Generated.customer_email)
    ELSE IF key = RouterKey.attendees_emails THEN attendees
    ELSE PyStr(<<"v">>)

\* params giving every required parameter of func but those of without
ParamsFor(func, without, attendees) ==
    LET keys == SeqOf(SignatureOf(func).required \ without)
    IN  PyDict([i \in DOMAIN keys |-> <<keys[i], ParamValue(keys[i], attendees)>>])

\* {"answer": answer, "call_tool": {"name": "send_email", "params": {...}}}
EmailPayload(answer, to, body) ==
    Payload(answer, ToolCall(PyStr(ToolName.send_email),
        Obj(<< <<RouterKey.to, to>>, <<RouterKey.subject, PyStr(<<"s">>)>>, <<RouterKey.body, body>> >>)))

EmailPayloads ==
    {EmailPayload(PyStr(Generated.A), t, b) :
        t \in {Absent, PyStr(<<>>), PyStr(Generated.customer_email)}, b \in {Absent, PyStr(<<"b">>)}}
    \cup {EmailPayload(a, PyStr(Generated.customer_email), PyStr(<<"b">>)) : a \in {Absent, PyStr(<<>>)}}
    \cup {EmailPayload(Absent, PyStr(Generated.customer_email), Absent)}

\* {"answer": answer, "call_tool": {"name": "send_whatsapp_message", "params": {...}}}
WhatsappPayload(answer, to, message) ==
    Payload(answer, ToolCall(PyStr(ToolName.send_whatsapp_message),
        Obj(<< <<RouterKey.to, to>>, <<RouterKey.message, message>> >>)))

WhatsappPayloads ==
    {WhatsappPayload(PyStr(Generated.A), t, m) :
        t \in {Absent, PyStr(Generated.customer_phone)}, m \in {Absent, PyStr(<<"m">>)}}
    \cup {WhatsappPayload(Absent, PyStr(Generated.customer_phone), PyStr(<<"m">>))}

\* a call of func with every required parameter but those of without
SpreadPayload(func, without, attendees) ==
    Payload(PyStr(Generated.A), ToolCall(PyStr(func), ParamsFor(func, without, attendees)))

WrapperPayloads ==
    {SpreadPayload(f, {}, PyList(<<>>)) : f \in EmailWrappers \cup WhatsappWrappers}
    \cup {SpreadPayload(f, {RouterKey.to}, PyList(<<>>)) :
            f \in {ToolName.send_email_confirmation, ToolName.send_email_reminder}}

CalendarPayloads ==
    {SpreadPayload(ToolName.create_event, without, PyList(<<>>)) :
        without \in {{RouterKey.attendees_emails}, {RouterKey.attendees_emails, CalendarKey.end_dt}}}
    \cup {SpreadPayload(f, {}, att) : f \in {ToolName.create_event, ToolName.cancel_event}, att \in AttendeeLists}
    \cup {SpreadPayload(ToolName.update_event, {}, PyList(<<>>))}
    \cup {SpreadPayload(f, {RagKey.title}, PyList(<<>>)) : f \in {ToolName.update_event, ToolName.cancel_event}}

UnknownToolPayloads ==
    {Payload(a, ToolCall(n, PyDict(<<>>))) : a \in Answers, n \in {PyStr(<<>>), PyStr(Generated.foo)}}
    \cup {Payload(PyStr(Generated.A), ToolCall(Absent, PyDict(<<>>)))}

\* params that are no dict
BadParamsPayloads ==
    {Payload(PyStr(Generated.A), ToolCall(PyStr(f), PyList(<<PyNum(<<"1">>)>>))) :
        f \in {ToolName.send_email, ToolName.create_event}}

NoCallPayloads ==
    {Payload(a, Absent) : a \in Answers}
    \cup {Payload(PyStr(Generated.A), c) : c \in {PyNone, PyDict(<<>>)}}

\* call_tool that is no dict
BadCallPayloads ==
    {Payload(PyStr(Generated.A), c) : c \in {PyStr(ToolName.send_email), PyList(<<PyNum(<<"1">>)>>)}}

JsonScalars ==
    {PyNum(<<"4","2">>), PyNone, PyStr(<<"h","i">>), PyList(<<PyNum(<<"1">>)>>)}

PlainTexts ==
    { <<"W","e"," ","o","p","e","n"," ","a","t"," ","9",".">>,
      <<"A","n","s","w","e","r",":"," ","W","e"," ","o","p","e","n"," ","a","t"," ","9","."," ">>,
      <<"{","b","a","d">>,
      <<" ">> \o json_dumps(Payload(PyStr(Generated.A), Absent)) \o <<"\n">>,
      <<" ", "\n">> }

\* the texts the inference API may generate
LlmTexts ==
    {json_dumps(v) :
        v \in EmailPayloads \cup WhatsappPayloads \cup WrapperPayloads \cup CalendarPayloads
              \cup UnknownToolPayloads \cup BadParamsPayloads \cup NoCallPayloads
              \cup BadCallPayloads \cup JsonScalars}
    \cup PlainTexts

\* what the inference API did
HfOutcomes ==
    {[kind |-> k, text |-> <<>>] : k \in {"no_key", "status", "exception"}}
    \cup {[kind |-> "text", text |-> t] : t \in LlmTexts}

\* generate_answer does not reach the inference API
NotCalled == [kind |-> "not_called", text |-> <<>>]

\* what the inference API may do while user_message is answered: generate_answer
\* calls it only for a message without a booking or WhatsApp keyword
LlmOutcomesFor(user_message) ==
    IF user_wants_tool(user_message) THEN {NotCalled} ELSE HfOutcomes

(***************************************************************************)
(* app/agents/graph.py: _schedule and answer_node                          *)
(***************************************************************************)
\* a task of the event loop: the coroutine it wraps, the label of its done callback
\* and where it stands ("pending", "done", or "unawaited" for a coroutine object
\* that was created and handed to no loop)
Task(coro, label, status) ==
    [coro |-> coro, label |-> label, status |-> status, exc |-> "none", success |-> FALSE]

LogEntry(event, tool) == [event |-> event, tool |-> tool]

\* a variant of _schedule that waits for the coroutine before it returns
_schedule_Awaited(coro, label, loop) ==
    [tasks |-> <<Task(coro, label, "done")>>, log |-> <<LogEntry("tool.completed", label)>>]

\* _schedule(coro, label): loop is "current" when asyncio.get_event_loop() gives a
\* loop, "none" when it raises RuntimeError
_schedule(coro, label, loop) ==
    IF loop = "current"
    THEN [tasks |-> <<Task(coro, label, "pending")>>, log |-> <<>>]
    ELSE [tasks |-> <<>>, log |-> <<LogEntry("tool.schedule_failed", label)>>]

\* the done callback of a task: ran is what running the coroutine did
_done(ran, label) ==
    IF ran.exc = "none" THEN LogEntry("tool.completed", label)
    ELSE LogEntry("tool.error", label)

\* the _schedule calls of one tool_router call (each branch makes at most one)
ScheduleAll(coros, loop) ==
    IF coros = <<>> THEN [tasks |-> <<>>, log |-> <<>>]
    ELSE _schedule(coros[1], coros[1].label, loop)

\* AgentState; a key that is not set holds Absent
AgentState(user_message, business_context) ==
    [user_message |-> user_message, business_context |-> business_context,
     response |-> Absent, tool_actions |-> Absent, documents_used |-> Absent,
     next_node |-> Absent]

\* answer_node(state) from the tool_router call on: exc is the exception that
\* leaves it ("none": it returned)
StoreRouted(state, result, routed, loop) ==
    IF routed.exc # "none"
    THEN [exc |-> routed.exc, state |-> state, generated |-> result.reply,
          routed |-> routed, scheduled |-> ScheduleAll(<<>>, loop)]
    ELSE [exc |-> "none",
          state |-> [state EXCEPT
                        !.response = Or(routed.reply, PyStr(<<>>)),
                        !.tool_actions = routed.tool_actions,
                        !.documents_used = result.documents_used],
          generated |-> result.reply,
          routed |-> routed,
          scheduled |-> ScheduleAll(routed.coros, loop)]

\* answer_node(state) from the generate_answer call on
RouteGenerated(state, result, loop) ==
    StoreRouted(state, result, tool_router(result.reply, state.business_context), loop)

answer_node(state, query, hf, loop) ==
    RouteGenerated(state,
        generate_answer(state.user_message, state.business_context, query, hf), loop)

(***************************************************************************)
(* app/agents/nodes/tools_executor.py                                      *)
(***************************************************************************)
\* the keywords extract_tool_requirements looks for
ExecutorKeyword ==
    [
     message |-> <<"m","e","s","s","a","g","e">>,
     appointment |-> <<"a","p","p","o","i","n","t","m","e","n","t">>,
     confirm |-> <<"c","o","n","f","i","r","m">>
    ]

\* requirements["tool_type"]
extract_tool_requirements(user_message) ==
    LET message_lower == Lower(user_message)
    IN  IF Contains(message_lower, RouterKey.whatsapp) \/ Contains(message_lower, ExecutorKeyword.message)
        THEN "whatsapp"
        ELSE IF Contains(message_lower, RouterKey.email) THEN "email"
        ELSE IF Contains(message_lower, ExecutorKeyword.appointment) /\ Contains(message_lower, ExecutorKeyword.confirm)
        THEN "appointment_confirmation"
        ELSE "none"

NeedDetailsText ==
    <<"I"," ","u","n","d","e","r","s","t","a","n","d"," ","y","o","u"," ","w","a","n","t"," ","m",
    "e"," ","t","o"," ","s","e","n","d"," ","a"," ","m","e","s","s","a","g","e",","," ","b","u",
    "t"," ","I"," ","n","e","e","d"," ","m","o","r","e"," ","d","e","t","a","i","l","s","."," ",
    "P","l","e","a","s","e"," ","s","p","e","c","i","f","y"," ","w","h","e","t","h","e","r"," ",
    "y","o","u"," ","w","a","n","t"," ","t","o"," ","s","e","n","d"," ","a","n"," ","e","m","a",
    "i","l"," ","o","r"," ","W","h","a","t","s","A","p","p"," ","m","e","s","s","a","g","e",",",
    " ","a","n","d"," ","p","r","o","v","i","d","e"," ","t","h","e"," ","r","e","c","i","p","i",
    "e","n","t"," ","a","n","d"," ","m","e","s","s","a","g","e"," ","c","o","n","t","e","n","t",
    ".">>

NeedPhoneText ==
    <<"I"," ","n","e","e","d"," ","a"," ","p","h","o","n","e"," ","n","u","m","b","e","r"," ","t",
    "o"," ","s","e","n","d"," ","a"," ","W","h","a","t","s","A","p","p"," ","m","e","s","s","a",
    "g","e","."," ","P","l","e","a","s","e"," ","p","r","o","v","i","d","e"," ","t","h","e"," ",
    "r","e","c","i","p","i","e","n","t","'","s"," ","p","h","o","n","e"," ","n","u","m","b","e",
    "r",".">>

NeedEmailText ==
    <<"I"," ","n","e","e","d"," ","a","n"," ","e","m","a","i","l"," ","a","d","d","r","e","s","s",
    " ","t","o"," ","s","e","n","d"," ","a","n"," ","e","m","a","i","l","."," ","P","l","e","a",
    "s","e"," ","p","r","o","v","i","d","e"," ","t","h","e"," ","r","e","c","i","p","i","e","n",
    "t","'","s"," ","e","m","a","i","l"," ","a","d","d","r","e","s","s",".">>

ToolFailedText ==
    <<"I"," ","e","n","c","o","u","n","t","e","r","e","d"," ","a","n"," ","i","s","s","u","e",":",
    " ","T","o","o","l"," ","e","x","e","c","u","t","i","o","n"," ","f","a","i","l","e","d",".",
    " ","P","l","e","a","s","e"," ","t","r","y"," ","a","g","a","i","n"," ","o","r"," ","c","o",
    "n","t","a","c","t"," ","s","u","p","p","o","r","t",".">>

ExecutorErrorText ==
    <<"I"," ","e","n","c","o","u","n","t","e","r","e","d"," ","a","n"," ","e","r","r","o","r"," ",
    "w","h","i","l","e"," ","e","x","e","c","u","t","i","n","g"," ","t","h","e"," ","r","e","q",
    "u","e","s","t","e","d"," ","a","c","t","i","o","n","."," ","P","l","e","a","s","e"," ","t",
    "r","y"," ","a","g","a","i","n",".">>

\* the early returns and the except branch: the response and next_node are set
Responded(state, text) ==
    [state |-> [state EXCEPT !.response = PyStr(text), !.next_node = "end"],
     created |-> <<>>]

\* tools_executor_node(state): the senders are coroutine functions the node calls
\* without awaiting, so result is a coroutine object, result.get raises
\* AttributeError and the except branch answers; created holds the coroutine objects
tools_executor_node(state) ==
    LET tool_type == extract_tool_requirements(state.user_message)
        ctx       == state.business_context
    IN  IF tool_type = "none" THEN Responded(state, NeedDetailsText)
        ELSE IF tool_type = "whatsapp"
        THEN LET recipient == Or(PyNone, GetOr(ctx, RouterKey.contact_phone, PyStr(<<>>)))
             IN  IF ~Truthy(recipient) THEN Responded(state, NeedPhoneText)
                 ELSE [Responded(state, ExecutorErrorText) EXCEPT !.created =
                        <<Coroutine(ToolName.send_whatsapp_message,
                            PyDict(<< <<RouterKey.to, recipient>>,
                                      <<RouterKey.message, PyStr(state.user_message)>> >>),
                            ToolName.send_whatsapp_message)>>]
        ELSE IF tool_type = "email"
        THEN LET recipient == Or(PyNone, GetOr(ctx, RouterKey.contact_email, PyStr(<<>>)))
             IN  IF ~Truthy(recipient) THEN Responded(state, NeedEmailText)
                 ELSE [Responded(state, ExecutorErrorText) EXCEPT !.created =
                        <<Coroutine(ToolName.send_email,
                            PyDict(<< <<RouterKey.to, recipient>>,
                                      <<RouterKey.body, PyStr(state.user_message)>> >>),
                            ToolName.send_email)>>]
        ELSE [state |-> [state EXCEPT !.response = PyStr(ToolFailedText),
                                      !.tool_actions = <<>>,
                                      !.next_node = "end"],
              created |-> <<>>]

(***************************************************************************)
(* The state machine                                                       *)
(***************************************************************************)
VARIABLES
    settings,   \* app.config.settings
    loop,       \* "current" when asyncio.get_event_loop() gives the caller a loop,
                \* "none" when it raises RuntimeError
    pc,         \* "idle" before the request, then the node that served it
    state,      \* the AgentState the node returned
    raised,     \* the exception that left the node ("none": it returned)
    generated,  \* the reply generate_answer gave answer_node
    routed,     \* what the first tool_router call did
    rerouted,   \* what the second tool_router call did
    tasks,      \* the tasks of the event loop, in creation order
    log,        \* the log entries of _schedule and the done callbacks
    outbound,   \* the provider calls made, in order
    vector_store, \* app.rag.vectorstore.vector_store: its mode, its embedding model,
                \* the files of the simple store and the collections of Chroma
    added,      \* per business id, the chunks add_documents was given
    db,         \* the rows of the database and the uploaded files on disk
    call        \* the last call of a function or endpoint: its inputs and what it gave

\* the variables of the agent graph
agent_vars == <<loop, pc, state, raised, generated, routed, rerouted, tasks, log>>

vars == <<settings, loop, pc, state, raised, generated, routed, rerouted, tasks, log, outbound,
          vector_store, added, db, call>>

\* no call made yet
NoCall == [op |-> "none"]

\* the agent graph has served no request
AgentIdle ==
    /\ loop = "current"
    /\ pc = "idle"
    /\ state = Absent
    /\ raised = "none"
    /\ generated = Absent
    /\ routed = Absent
    /\ rerouted = Absent
    /\ tasks = <<>>
    /\ log = <<>>

Init ==
    /\ settings \in Settings
    /\ loop \in {"current", "none"}
    /\ pc = "idle"
    /\ state = Absent
    /\ raised = "none"
    /\ generated = Absent
    /\ routed = Absent
    /\ rerouted = Absent
    /\ tasks = <<>>
    /\ log = <<>>
    /\ outbound = <<>>
    \* the graph is given what the store and the database answered as inputs
    /\ vector_store = Absent
    /\ added = Absent
    /\ db = Absent
    /\ call = NoCall

\* run_agent: the graph invokes answer_node on the initial state
AnswerNode(user_message, ctx, query, hf) ==
    /\ pc = "idle"
    /\ \E r \in {answer_node(AgentState(user_message, ctx), query, hf, loop)} :
        /\ state' = r.state
        /\ raised' = r.exc
        /\ generated' = r.generated
        /\ routed' = r.routed
        /\ tasks' = r.scheduled.tasks
        /\ log' = r.scheduled.log
    /\ pc' = "answer"
    /\ UNCHANGED <<settings, loop, rerouted, outbound, vector_store, added, db, call>>

\* tool_router called a second time with the reply and context of the first call
ToolRouterAgain ==
    /\ pc = "answer"
    /\ rerouted = Absent
    /\ \E r \in {tool_router(generated, state.business_context)} :
        /\ rerouted' = r
        /\ \E s \in {ScheduleAll(r.coros, loop)} :
            /\ tasks' = tasks \o s.tasks
            /\ log' = log \o s.log
    /\ UNCHANGED <<settings, loop, pc, state, raised, generated, routed, outbound,
                   vector_store, added, db, call>>

\* the event loop runs a pending task to its end and calls its done callback;
\* providers[i] is what the provider does at the i-th send
TaskRun(i, providers) ==
    /\ i \in DOMAIN tasks
    /\ tasks[i].status = "pending"
    /\ \E ran \in {RunCoroutine(tasks[i].coro, settings, providers)} :
        /\ tasks' = [tasks EXCEPT ![i].status = "done", ![i].exc = ran.exc,
                                  ![i].success = ran.success]
        /\ outbound' = outbound \o ran.outbound
        /\ log' = Append(log, _done(ran, tasks[i].label))
    /\ UNCHANGED <<settings, loop, pc, state, raised, generated, routed, rerouted,
                   vector_store, added, db, call>>

\* the tools node serves the request
ToolsExecutorNode(user_message, ctx) ==
    /\ pc = "idle"
    /\ \E r \in {tools_executor_node(AgentState(user_message, ctx))} :
        /\ state' = r.state
        /\ tasks' = [k \in DOMAIN r.created |->
                        Task(r.created[k], r.created[k].label, "unawaited")]
    /\ pc' = "tools_executor"
    /\ UNCHANGED <<settings, loop, raised, generated, routed, rerouted, log, outbound,
                   vector_store, added, db, call>>

Next ==
    \/ \E user_message \in Messages :
          \E hf \in LlmOutcomesFor(user_message), ctx \in Contexts, query \in Queries :
            AnswerNode(user_message, ctx, query, hf)
    \/ ToolRouterAgain
    \/ \E i \in DOMAIN tasks, providers \in [1..MaxAttendees -> ProviderOutcomes] :
            TaskRun(i, providers)
    \/ \E user_message \in Messages, ctx \in Contexts :
            ToolsExecutorNode(user_message, ctx)

Spec == Init /\ [][Next]_vars

(***************************************************************************)
(* app/rag/vectorstore.py                                                  *)
(***************************************************************************)
\* how many add_documents calls a behaviour makes, at most
MaxAdds == 2

\* the largest n_results a caller asks for
MaxResults == 2

\* n_results of generate_answer's query
DefaultResults == 5

\* the ids of the businesses
BusinessIds == {1, 2}

\* the chunks a document is split into
Chunks ==
    { <<"H","o","u","r","s"," ","9","-","5">>,
      <<"P","r","i","c","e"," ","l","i","s","t">> }

\* the questions asked of the store
Questions == { <<"h","o","u","r","s">>, <<"S">> }

\* an entry of a simple store file as _add_documents_simple writes it; embedding
\* tells whether the entry holds a vector (TRUE) or null (FALSE)
Entry(text, embedding) == [kind |-> "entry", text |-> text, embedding |-> embedding]

\* a simple store file holding a JSON list of entries
ListFile(entries) == [kind |-> "list", entries |-> entries]

\* what the file of a business may hold before the process starts: nothing at
\* all, bytes that are no JSON, JSON that is no list, a list whose items are no
\* objects, a list whose objects have no "text"
InitialFiles ==
    {[kind |-> "missing", entries |-> <<>>],
     [kind |-> "unreadable", entries |-> <<>>],
     [kind |-> "not_list", entries |-> <<>>],
     ListFile(<< [kind |-> "not_dict"] >>),
     ListFile(<< [kind |-> "no_text"] >>)}

\* a variant of _simple_path that keeps every business in one file
_simple_path_Shared(business_id) == 1

\* self.simple_dir / f"business_{business_id}.json": the path is told by the id
_simple_path(business_id) == business_id

\* _load_simple_store: the list the file holds, [] for every other file
_load_simple_store(files, business_id) ==
    LET file == files[_simple_path(business_id)]
    IN  IF file.kind = "list" THEN file.entries ELSE <<>>

\* _embed_texts gives an array (TRUE) or None (FALSE): None without a model and
\* when encode raises
_embed_texts(embedding_model, encode) == embedding_model /\ encode = "ok"

\* results[:n] for n >= 0
Prefix(seq, n) == SubSeq(seq, 1, IF n < Len(seq) THEN n ELSE Len(seq))

\* the orders a ranking may give the best n of k rows (1-based row numbers):
\* which rows are closest is told by vectors the model does not hold
Ranked(k, n) ==
    LET m == IF n < k THEN n ELSE k
    IN  {top \in [1..m -> 1..k] : \A i, j \in 1..m : top[i] = top[j] => i = j}

\* the list query_documents returns, or the exception that leaves it. Of a
\* ranked answer of the simple store the record also keeps, for each result,
\* the entry its text and metadata are read from (entry), the entry whose
\* embedding gave its similarity (scored), and the similarity of every row
\* of the embeddings array with the order argsort gave them (similarities, top)
RankedDocs(docs, entry, scored, similarities, top) ==
    [raised |-> FALSE, exc |-> "none", docs |-> docs, entry |-> entry, scored |-> scored,
     similarities |-> similarities, top |-> top]
DocsReturned(docs) == RankedDocs(docs, <<>>, <<>>, <<>>, <<>>)
QueryRaised(exc) ==
    [raised |-> TRUE, exc |-> exc, docs |-> <<>>, entry |-> <<>>, scored |-> <<>>,
     similarities |-> <<>>, top |-> <<>>]

\* the values a cosine similarity takes, as far as their order goes
Similarities == {0, 1, 2}

\* the entry that row r of the embeddings array was read from: the r-th entry
\* with a truthy "embedding"
RECURSIVE EmbeddedEntry(_, _, _)
EmbeddedEntry(entries, r, from) ==
    IF entries[from].embedding
    THEN IF r = 1 THEN from ELSE EmbeddedEntry(entries, r - 1, from + 1)
    ELSE EmbeddedEntry(entries, r, from + 1)

\* np.argsort(similarities)[::-1][:n_results]: the rows of the n highest
\* similarities, highest first, equal ones in either order
TopRows(similarities, n_results) ==
    {top \in Ranked(Len(similarities), n_results) :
        /\ \A i, j \in DOMAIN top : i < j => similarities[top[i]] >= similarities[top[j]]
        /\ \A r \in DOMAIN similarities :
                (\A i \in DOMAIN top : top[i] # r)
                    => \A i \in DOMAIN top : similarities[top[i]] >= similarities[r]}

\* the list _query_simple builds: texts[i] and metas[i] with similarities[i],
\* for every i of top
QuerySimpleResult(entries, texts, similarities, top) ==
    RankedDocs([i \in DOMAIN top |-> texts[top[i]]],
               [i \in DOMAIN top |-> top[i]],
               [i \in DOMAIN top |-> EmbeddedEntry(entries, top[i], 1)],
               similarities, top)

\* _query_simple: the outcomes it may have
_query_simple(vs, business_id, query, n_results, env) ==
    LET entries == _load_simple_store(vs.files, business_id)
        \* the rows of the embeddings array: the entries with a truthy "embedding"
        rows    == Len(SelectSeq(entries, LAMBDA e : e.embedding))
        texts   == [i \in DOMAIN entries |-> entries[i].text]
    IN  IF entries = <<>> THEN {DocsReturned(<<>>)}
        ELSE IF \E i \in DOMAIN entries : entries[i].kind = "not_dict"
        THEN {QueryRaised("AttributeError")}
        ELSE IF \E i \in DOMAIN entries : entries[i].kind = "no_text"
        THEN {QueryRaised("KeyError")}
        ELSE IF rows = 0 \/ ~vs.embedding_model
        THEN {DocsReturned(Prefix(SelectSeq(texts, LAMBDA t : Contains(Lower(t), Lower(query))),
                              n_results))}
        ELSE IF ~_embed_texts(vs.embedding_model, env.encode) THEN {DocsReturned(<<>>)}
        ELSE UNION {{QuerySimpleResult(entries, texts, similarities, top) :
                        top \in TopRows(similarities, n_results)} :
                    similarities \in [1..rows -> Similarities]}

\* _query_chroma: collection.query gives at most n_results documents of the
\* collection it is called on; every exception is caught
_query_chroma(vs, business_id, query, n_results, env) ==
    LET collection == vs.collections[business_id]
    IN  IF env.client # "ok" THEN {DocsReturned(<<>>)}
        ELSE {DocsReturned([i \in DOMAIN top |-> collection[top[i]]]) :
                top \in Ranked(Len(collection), n_results)}

\* query_documents(business_id, query, n_results): the outcomes it may have
query_documents(vs, business_id, query, n_results, env) ==
    IF vs.mode = "chroma"
    THEN _query_chroma(vs, business_id, query, n_results, env)
    ELSE _query_simple(vs, business_id, query, n_results, env)

\* _add_documents_chroma: collection.add appends, every exception gives False
_add_documents_chroma(vs, business_id, texts, env) ==
    IF env.client # "ok" THEN [store |-> vs, success |-> FALSE, exc |-> "none"]
    ELSE [store |-> [vs EXCEPT !.collections[business_id] = @ \o texts],
          success |-> TRUE, exc |-> "none"]

\* _add_documents_simple once existing is loaded: the new entries are appended
\* to existing and the file is rewritten with the list
AppendAndSave(vs, business_id, existing, texts, env) ==
    LET embeddings == _embed_texts(vs.embedding_model, env.encode)
        entries    == existing \o [i \in DOMAIN texts |-> Entry(texts[i], embeddings)]
    IN  IF env.disk = "error" THEN [store |-> vs, success |-> FALSE, exc |-> "OSError"]
        ELSE IF env.disk = "full"
        THEN [store |-> [vs EXCEPT !.files[_simple_path(business_id)] =
                                        [kind |-> "unreadable", entries |-> <<>>]],
              success |-> FALSE, exc |-> "OSError"]
        ELSE [store |-> [vs EXCEPT !.files[_simple_path(business_id)] = ListFile(entries)],
              success |-> TRUE, exc |-> "none"]

\* _add_documents_simple: the file is rewritten with the old entries and the new
_add_documents_simple(vs, business_id, texts, env) ==
    AppendAndSave(vs, business_id, _load_simple_store(vs.files, business_id), texts, env)

\* add_documents(business_id, documents)
add_documents(vs, business_id, texts, env) ==
    IF vs.mode = "chroma"
    THEN _add_documents_chroma(vs, business_id, texts, env)
    ELSE _add_documents_simple(vs, business_id, texts, env)

\* what the backends do during one call: the Chroma client, the encoder, the disk
\* (disk "error": the file cannot be opened; "full": the write stops midway)
Envs == [client : {"ok", "error"}, encode : {"ok", "error"}, disk : {"ok", "error", "full"}]

\* the outcomes a call on store vs can meet: a backend it never reaches has none
\* (writes tells whether the call writes the file of the simple store)
EnvsFor(vs, writes) ==
    {env \in Envs :
        /\ (vs.mode # "chroma") => env.client = "ok"
        /\ ~vs.embedding_model => env.encode = "ok"
        /\ (vs.mode = "chroma" \/ ~writes) => env.disk = "ok"}

\* VectorStore(): Chroma or the simple store, with or without an embedding model;
\* the simple store finds the files a former process or another writer left
InitStore ==
    /\ \E mode \in {"chroma", "simple"}, embedding_model \in BOOLEAN, file \in InitialFiles :
        vector_store = [mode |-> mode,
                        embedding_model |-> embedding_model,
                        files |-> [p \in BusinessIds |->
                                     IF mode = "simple" THEN file
                                     ELSE [kind |-> "missing", entries |-> <<>>]],
                        collections |-> [b \in BusinessIds |-> <<>>]]
    /\ added = [calls |-> 0, chunks |-> [b \in BusinessIds |-> {}]]

\* vector_store.add_documents(business_id, [chunk])
AddDocuments(business_id, text, env) ==
    /\ call = NoCall
    /\ added.calls < MaxAdds
    /\ \E r \in {add_documents(vector_store, business_id, <<text>>, env)} :
        /\ vector_store' = r.store
        /\ call' = [op |-> "add_documents", business_id |-> business_id,
                    success |-> r.success, exc |-> r.exc]
    /\ added' = [calls |-> added.calls + 1,
                 chunks |-> [added.chunks EXCEPT ![business_id] = @ \cup {text}]]
    /\ UNCHANGED <<settings, outbound, db, agent_vars>>

\* vector_store.query_documents(business_id, query, n_results)
QueryDocuments(business_id, query, n_results, env) ==
    /\ call = NoCall
    /\ \E r \in query_documents(vector_store, business_id, query, n_results, env) :
        call' = [op |-> "query_documents", business_id |-> business_id,
                 n_results |-> n_results, env |-> env, result |-> r]
    /\ UNCHANGED <<settings, outbound, db, vector_store, added, agent_vars>>

\* generate_answer(business_id, user_message, metadata_context)
GenerateAnswer(business_id, user_message, meta, env, hf) ==
    /\ call = NoCall
    /\ \E q \in query_documents(vector_store, business_id, user_message, DefaultResults, env) :
        \E r \in {generate_answer(user_message, meta, q, hf)} :
            call' = [op |-> "generate_answer", business_id |-> business_id,
                     user_message |-> user_message, meta |-> meta,
                     env |-> env, query |-> q, hf |-> hf,
                     reply |-> r.reply, documents_used |-> r.documents_used]
    /\ UNCHANGED <<settings, outbound, db, vector_store, added, agent_vars>>

\* the caller takes what the call gave
Return ==
    /\ call # NoCall
    /\ call' = NoCall
    /\ UNCHANGED <<settings, outbound, db, vector_store, added, agent_vars>>

\* what the inference API may do while a question is answered: each way to fail,
\* a blank text, a text
RagLlmOutcomes ==
    {[kind |-> k, text |-> <<>>] : k \in {"no_key", "status", "exception"}}
    \cup {[kind |-> "text", text |-> t] :
            t \in {<<" ", "\n">>, <<"W","e"," ","o","p","e","n"," ","a","t"," ","9",".">>}}

InitRag ==
    /\ InitStore
    /\ AgentIdle
    /\ settings = Absent
    /\ outbound = <<>>
    /\ db = Absent
    /\ call = NoCall

\* a business with no contact details, and one with both
RagContexts ==
    {Context(PyNone, PyNone),
     Context(PyStr(Business.owner_email), PyStr(Business.owner_phone))}

NextRag ==
    \/ \E b \in BusinessIds, text \in Chunks, env \in EnvsFor(vector_store, TRUE) :
            AddDocuments(b, text, env)
    \/ \E b \in BusinessIds, query \in Questions, n \in 0..MaxResults :
          \E env \in EnvsFor(vector_store, FALSE) : QueryDocuments(b, query, n, env)
    \/ \E b \in BusinessIds, user_message \in Questions \cup {Fragments[1]} :
          \E env \in EnvsFor(vector_store, FALSE),
             hf \in IF user_message \in Questions THEN RagLlmOutcomes ELSE {NotCalled},
             ctx \in RagContexts :
            GenerateAnswer(b, user_message, ctx, env, hf)
    \/ Return

SpecRag == InitRag /\ [][NextRag]_vars

(***************************************************************************)
(* Two writers of the simple store: _add_documents_simple takes no lock    *)
(* and the file is shared by every process that runs add_documents (the    *)
(* workers serving /upload-docs, a caller of ingest_text)                  *)
(***************************************************************************)
\* a writer that is in no call
IdleWriter == [pc |-> "idle", business_id |-> 0, texts |-> <<>>, existing |-> <<>>]

\* seq is the beginning of longer
IsPrefix(seq, longer) ==
    /\ Len(seq) <= Len(longer)
    /\ \A i \in DOMAIN seq : longer[i] = seq[i]

\* writer w enters _add_documents_simple with one document and loads the list
LoadSimpleStore(w, business_id, text) ==
    /\ tasks[w].pc = "idle"
    /\ added.calls < MaxAdds
    /\ tasks' = [tasks EXCEPT ![w] =
                    [pc |-> "loaded", business_id |-> business_id, texts |-> <<text>>,
                     existing |-> _load_simple_store(vector_store.files, business_id)]]
    /\ added' = [calls |-> added.calls + 1,
                 chunks |-> [added.chunks EXCEPT ![business_id] = @ \cup {text}]]
    /\ UNCHANGED <<settings, outbound, vector_store, db, call,
                   loop, pc, state, raised, generated, routed, rerouted, log>>

\* writer w embeds its texts, appends the entries to the list it loaded and
\* saves it; log keeps what the call did: whether the file it left begins with
\* the entries the file held (kept), and whether the file had changed since
\* the writer loaded it (stale)
SaveSimpleStore(w, env) ==
    /\ tasks[w].pc = "loaded"
    /\ \E r \in {AppendAndSave(vector_store, tasks[w].business_id, tasks[w].existing,
                                tasks[w].texts, env)} :
        /\ vector_store' = r.store
        /\ log' = Append(log,
                    [writer |-> w, business_id |-> tasks[w].business_id,
                     text |-> tasks[w].texts[1], success |-> r.success,
                     kept |-> IsPrefix(_load_simple_store(vector_store.files, tasks[w].business_id),
                                       _load_simple_store(r.store.files, tasks[w].business_id)),
                     stale |-> tasks[w].existing
                                # _load_simple_store(vector_store.files, tasks[w].business_id)])
    /\ tasks' = [tasks EXCEPT ![w] = IdleWriter]
    /\ UNCHANGED <<settings, outbound, added, db, call,
                   loop, pc, state, raised, generated, routed, rerouted>>

InitWriters ==
    /\ \E embedding_model \in BOOLEAN, file \in InitialFiles :
        vector_store = [mode |-> "simple",
                        embedding_model |-> embedding_model,
                        files |-> [p \in BusinessIds |-> file],
                        collections |-> [b \in BusinessIds |-> <<>>]]
    /\ added = [calls |-> 0, chunks |-> [b \in BusinessIds |-> {}]]
    /\ tasks = <<IdleWriter, IdleWriter>>
    /\ log = <<>>
    /\ loop = "current"
    /\ pc = "idle"
    /\ state = Absent /\ generated = Absent /\ routed = Absent /\ rerouted = Absent
    /\ raised = "none"
    /\ settings = Absent
    /\ outbound = <<>>
    /\ db = Absent
    /\ call = NoCall

NextWriters ==
    \/ \E w \in DOMAIN tasks, b \in BusinessIds, text \in Chunks : LoadSimpleStore(w, b, text)
    \/ \E w \in DOMAIN tasks, env \in EnvsFor(vector_store, TRUE) : SaveSimpleStore(w, env)

SpecWriters == InitWriters /\ [][NextWriters]_vars

(***************************************************************************)
(* app/rag/ingest.py: chunk_text                                           *)
(***************************************************************************)
\* how many iterations of the loop of chunk_text a behaviour follows, at most
MaxIterations == 6

\* the texts chunked, the chunk sizes and the overlaps
ChunkTexts ==
    {<<>>, <<"a">>, <<"a","b">>, <<"a","b","c">>, <<"a","b","c","d">>,
     <<"a","b","c","d","e">>}
ChunkSizes == 1..3
ChunkOverlaps == 0..3

\* where index i of a slice falls in a sequence of n items: a negative index
\* counts from the end, and both ends are clipped
SliceIndex(n, i) ==
    IF i < 0 THEN (IF n + i < 0 THEN 0 ELSE n + i)
    ELSE IF i > n THEN n ELSE i

\* text[start:end], with the 0-based indices of Python
PySlice(text, start, end) ==
    SubSeq(text, SliceIndex(Len(text), start) + 1, SliceIndex(Len(text), end))

\* chunk_text(text, chunk_size, chunk_overlap) is entered: chunks = [], start = 0
\* (starts keeps the value of start at each append)
ChunkTextCalled(text, chunk_size, chunk_overlap) ==
    /\ call = NoCall
    /\ call' = [op |-> "chunk_text", text |-> text, chunk_size |-> chunk_size,
                chunk_overlap |-> chunk_overlap, start |-> 0, chunks |-> <<>>,
                starts |-> <<>>, iterations |-> 0, returned |-> FALSE]
    /\ UNCHANGED <<settings, outbound, db, vector_store, added, agent_vars>>

\* one iteration of  while start < len(text)
ChunkTextIterates ==
    /\ call.op = "chunk_text"
    /\ ~call.returned
    /\ call.start < Len(call.text)
    /\ call.iterations < MaxIterations
    /\ call' = [call EXCEPT
                    !.chunks = Append(@, PySlice(call.text, call.start,
                                                 call.start + call.chunk_size)),
                    !.starts = Append(@, call.start),
                    !.start = (call.start + call.chunk_size) - call.chunk_overlap,
                    !.iterations = @ + 1]
    /\ UNCHANGED <<settings, outbound, db, vector_store, added, agent_vars>>

\* the loop ends: return chunks
ChunkTextReturns ==
    /\ call.op = "chunk_text"
    /\ ~call.returned
    /\ call.start >= Len(call.text)
    /\ call' = [call EXCEPT !.returned = TRUE]
    /\ UNCHANGED <<settings, outbound, db, vector_store, added, agent_vars>>

\* the caller takes the chunks
ChunksTaken ==
    /\ call.op = "chunk_text"
    /\ call.returned
    /\ call' = NoCall
    /\ UNCHANGED <<settings, outbound, db, vector_store, added, agent_vars>>

InitChunk ==
    /\ AgentIdle
    /\ settings = Absent
    /\ outbound = <<>>
    /\ db = Absent
    /\ vector_store = Absent
    /\ added = Absent
    /\ call = NoCall

NextChunk ==
    \/ \E text \in ChunkTexts, chunk_size \in ChunkSizes, chunk_overlap \in ChunkOverlaps :
            ChunkTextCalled(text, chunk_size, chunk_overlap)
    \/ ChunkTextIterates
    \/ ChunkTextReturns
    \/ ChunksTaken

SpecChunk == InitChunk /\ [][NextChunk]_vars

(***************************************************************************)
(* The senders called directly: app/routes/tools.py and the callers of     *)
(* create_event                                                            *)
(***************************************************************************)
\* how many provider calls a behaviour makes, at most
MaxSent == 2

\* the settings the senders may run under: each sender on or off, the SMTP host
\* and user and the WhatsApp token set or unset
SenderSettings ==
    {[WHATSAPP_MCP_ENABLED |-> w, WHATSAPP_ACCESS_TOKEN |-> token,
      EMAIL_MCP_ENABLED |-> e, EMAIL_HOST |-> host, EMAIL_USERNAME |-> user,
      CALENDAR_MCP_ENABLED |-> c] :
        w \in BOOLEAN, token \in {PyNone, PyStr(<<"t">>)},
        e \in BOOLEAN, host \in {PyNone, PyStr(<<"h">>)}, user \in {PyNone, PyStr(<<"u">>)},
        c \in BOOLEAN}

\* the recipients of a request: an address, a text that is no address
Recipients == {PyStr(Generated.customer_email), PyStr(<<"n","o","b","o","d","y">>)}

\* a datetime object
PyDatetime == [type |-> "datetime"]

\* the keyword arguments of a create_event call
EventKwargs(start_dt, end_dt, attendees, send_via_email) ==
    PyDict(<< <<RagKey.title, PyStr(<<"v">>)>>,
              <<RagKey.start_dt, start_dt>>,
              <<CalendarKey.end_dt, end_dt>>,
              <<RagKey.description, PyStr(<<"v">>)>>,
              <<RagKey.location, PyNone>>,
              <<RouterKey.attendees_emails, PyList(attendees)>>,
              <<RouterKey.send_via_email, PyBool(send_via_email)>>,
              <<RouterKey.send_via_whatsapp, PyBool(FALSE)>> >>)

\* create_appointment: start_dt and end_dt are appt_dt.isoformat(), a str
AppointmentEventKwargs(customer_email) ==
    EventKwargs(PyStr(<<"2","0","2","5","-","0","1","-","0","5","T","1","0",":","3","0",":","0","0">>),
                PyStr(<<"2","0","2","5","-","0","1","-","0","5","T","1","1",":","3","0",":","0","0">>),
                IF Truthy(customer_email) THEN <<customer_email>> ELSE <<>>, TRUE)

\* the callers of create_event and the keyword arguments each passes:
\* post_create_event passes the datetime objects of its request, create_appointment
\* and tool_router pass str
EventKwargsOf(caller, attendees, send_via_email) ==
    CASE caller = "post_create_event" ->
            EventKwargs(PyDatetime, PyDatetime, attendees, send_via_email)
      [] caller = "create_appointment" ->
            AppointmentEventKwargs(IF attendees = <<>> THEN PyNone ELSE attendees[1])
      [] caller = "tool_router" ->
            EventKwargs(PyStr(<<"v">>), PyStr(<<"v">>), attendees, send_via_email)

EventCallers == {"post_create_event", "create_appointment", "tool_router"}

\* the result of a sender and the provider calls it made are recorded
Sent(op, args, r) ==
    /\ call' = [op |-> op, args |-> args, result |-> r]
    /\ outbound' = outbound \o r.outbound
    /\ UNCHANGED <<settings, vector_store, added, db, agent_vars>>

\* post_send_email: send_email(payload.to, payload.subject, payload.body)
SendEmail(to, provider) ==
    /\ call = NoCall
    /\ Len(outbound) < MaxSent
    /\ Sent("send_email", [to |-> to, provider |-> provider],
            send_email(to, 0, settings, provider))

\* post_whatsapp: send_whatsapp_message(to, message, type, template)
SendWhatsapp(to, message, provider) ==
    /\ call = NoCall
    /\ Len(outbound) < MaxSent
    /\ Sent("send_whatsapp_message", [to |-> to, provider |-> provider],
            send_whatsapp_message(to, message, settings, provider))

\* create_event(**kwargs) as one of its callers calls it
CreateEvent(caller, attendees, send_via_email, providers) ==
    /\ call = NoCall
    /\ Len(outbound) < MaxSent
    /\ caller = "create_appointment" => (send_via_email /\ Len(attendees) <= 1)
    /\ Sent("create_event",
            [caller |-> caller, attendees |-> attendees, send_via_email |-> send_via_email,
             providers |-> providers],
            create_event(EventKwargsOf(caller, attendees, send_via_email), settings, providers))

\* the keyword arguments of an update_event and of a cancel_event call
ChangeKwargs(op, attendees, send_via_email) ==
    IF op = "update_event"
    THEN PyDict(<< <<RagKey.title, PyStr(<<"v">>)>>,
                   <<SenderKey.new_start, PyDatetime>>,
                   <<SenderKey.new_end, PyDatetime>>,
                   <<RagKey.description, PyStr(<<"v">>)>>,
                   <<RouterKey.attendees_emails, PyList(attendees)>>,
                   <<RouterKey.send_via_email, PyBool(send_via_email)>> >>)
    ELSE PyDict(<< <<RagKey.title, PyStr(<<"v">>)>>,
                   <<RouterKey.attendees_emails, PyList(attendees)>>,
                   <<RouterKey.send_via_email, PyBool(send_via_email)>> >>)

\* update_event(**kwargs) and cancel_event(**kwargs)
ChangeEvent(op, attendees, send_via_email, providers) ==
    /\ call = NoCall
    /\ Len(outbound) < MaxSent
    /\ Sent(op,
            [caller |-> "direct", attendees |-> attendees, send_via_email |-> send_via_email,
             providers |-> providers],
            IF op = "update_event"
            THEN update_event(ChangeKwargs(op, attendees, send_via_email), settings, providers)
            ELSE cancel_event(ChangeKwargs(op, attendees, send_via_email), settings, providers))

\* the caller takes the result
SendReturn ==
    /\ call # NoCall
    /\ call' = NoCall
    /\ UNCHANGED <<settings, outbound, vector_store, added, db, agent_vars>>

InitSend ==
    /\ settings \in SenderSettings
    /\ AgentIdle
    /\ outbound = <<>>
    /\ vector_store = Absent
    /\ added = Absent
    /\ db = Absent
    /\ call = NoCall

\* the one WhatsApp destination and text tried
WhatsappRecipients == {PyStr(Business.owner_phone)}

WhatsappMessages == {PyStr(<<"h","i">>)}

NextSend ==
    \/ \E to \in Recipients, provider \in ProviderOutcomes : SendEmail(to, provider)
    \/ \E to \in WhatsappRecipients, message \in WhatsappMessages, provider \in ProviderOutcomes :
            SendWhatsapp(to, message, provider)
    \/ \E caller \in EventCallers, n \in 0..MaxAttendees, send_via_email \in BOOLEAN :
          \E attendees \in [1..n -> Recipients], providers \in [1..MaxAttendees -> ProviderOutcomes] :
            CreateEvent(caller, attendees, send_via_email, providers)
    \/ \E op \in {"update_event", "cancel_event"}, n \in 0..MaxAttendees, send_via_email \in BOOLEAN :
          \E attendees \in [1..n -> Recipients], providers \in [1..MaxAttendees -> ProviderOutcomes] :
            ChangeEvent(op, attendees, send_via_email, providers)
    \/ SendReturn

SpecSend == InitSend /\ [][NextSend]_vars

(***************************************************************************)
(* app/agents/nodes/classify.py                                            *)
(***************************************************************************)
\* the keyword lists of classify_intent
ClassifyKeywords ==
    [
     create_keywords |-> <<
        <<"b","o","o","k">>, <<"s","c","h","e","d","u","l","e">>,
        <<"a","p","p","o","i","n","t","m","e","n","t">>, <<"r","e","s","e","r","v","e">>,
        <<"s","l","o","t">>, <<"a","v","a","i","l","a","b","l","e">>,
        <<"c","a","n"," ","i"," ","c","o","m","e">>,
        <<"c","a","n"," ","w","e"," ","m","e","e","t">>,
        <<"w","a","n","t"," ","t","o"," ","b","o","o","k">>,
        <<"c","o","n","s","u","l","t","a","t","i","o","n">>, <<"m","e","e","t","i","n","g">> >>,
     cancel_keywords |-> <<
        <<"c","a","n","c","e","l">>, <<"c","a","l","l"," ","o","f","f">>,
        <<"d","o","n","'","t"," ","w","a","n","t">>,
        <<"r","e","m","o","v","e"," ","m","y"," ","b","o","o","k","i","n","g">>,
        <<"n","o"," ","l","o","n","g","e","r"," ","n","e","e","d">>,
        <<"c","a","n","c","e","l"," ","m","y"," ","a","p","p","o","i","n","t","m","e","n","t">> >>,
     reschedule_keywords |-> <<
        <<"r","e","s","c","h","e","d","u","l","e">>,
        <<"c","h","a","n","g","e"," ","t","i","m","e">>,
        <<"s","h","i","f","t"," ","a","p","p","o","i","n","t","m","e","n","t">>,
        <<"m","o","v","e"," ","m","e","e","t","i","n","g">>,
        <<"a","n","o","t","h","e","r"," ","t","i","m","e">>,
        <<"d","i","f","f","e","r","e","n","t"," ","t","i","m","e">> >>,
     status_keywords |-> <<

        <<"w","h","e","n"," ","i","s"," ","m","y"," ","a","p","p","o","i","n","t","m","e","n","t">>,
        <<"d","o"," ","i"," ","h","a","v","e"," ","a","n"," ","a","p","p","o","i","n","t","m","e","n","t">>,
        <<"a","p","p","o","i","n","t","m","e","n","t"," ","s","t","a","t","u","s">>,
        <<"w","h","a","t"," ","t","i","m","e"," ","i","s"," ","m","y"," ","a","p","p","o","i","n","t","m","e","n","t">>,
        <<"m","y"," ","s","l","o","t">>, <<"m","y"," ","b","o","o","k","i","n","g">> >>,
     reminder_keywords |-> <<
        <<"r","e","m","i","n","d"," ","m","e">>,
        <<"s","e","n","d"," ","r","e","m","i","n","d","e","r">>,
        <<"r","e","m","i","n","d","e","r">>,
        <<"n","o","t","i","f","y"," ","m","e"," ","b","e","f","o","r","e">>,
        <<"t","e","l","l"," ","m","e"," ","b","e","f","o","r","e">> >>,
     followup_keywords |-> <<
        <<"f","o","l","l","o","w"," ","u","p">>,
        <<"m","e","s","s","a","g","e"," ","t","h","e","m"," ","a","g","a","i","n">>,
        <<"a","s","k"," ","a","g","a","i","n">>, <<"p","i","n","g">>,
        <<"c","o","n","t","a","c","t"," ","a","g","a","i","n">> >>,
     general_tool_keywords |-> <<
        <<"s","e","n","d"," ","e","m","a","i","l">>,
        <<"s","e","n","d"," ","w","h","a","t","s","a","p","p">>, <<"n","o","t","i","f","y">>,
        <<"c","o","n","t","a","c","t">>, <<"s","e","n","d"," ","m","e","s","s","a","g","e">>,
        <<"e","m","a","i","l"," ","t","h","e","m">>,
        <<"w","h","a","t","s","a","p","p"," ","t","h","e","m">> >>,
     faq_keywords |-> <<
        <<"w","h","a","t"," ","i","s">>, <<"w","h","o"," ","a","r","e">>,
        <<"w","h","e","r","e"," ","i","s">>, <<"h","o","w"," ","m","u","c","h">>,
        <<"p","r","i","c","e">>, <<"c","o","s","t">>, <<"h","o","u","r","s">>,
        <<"o","p","e","n">>, <<"c","l","o","s","e","d">>, <<"c","o","n","t","a","c","t">>,
        <<"p","h","o","n","e">>, <<"a","d","d","r","e","s","s">> >>
    ]

\* the FAQ group asks for fewer words than this
FaqWordLimit == 15

\* any(k in msg for k in keywords)
AnyKeyword(keywords, msg) == \E i \in DOMAIN keywords : Contains(msg, keywords[i])

\* len(msg.split()): the maximal runs of characters that are no whitespace
WordCount(msg) ==
    Cardinality({i \in DOMAIN msg :
                    msg[i] \notin Whitespace /\ (i = 1 \/ msg[i - 1] \in Whitespace)})

\* a variant of FaqMatches without the word limit
FaqMatches_NoWordLimit(msg) == AnyKeyword(ClassifyKeywords.faq_keywords, msg)

\* any(k in msg for k in faq_keywords) and len(msg.split()) < 15
FaqMatches(msg) ==
    AnyKeyword(ClassifyKeywords.faq_keywords, msg) /\ WordCount(msg) < FaqWordLimit

\* classify_intent from msg = user_message.lower().strip() on
ClassifyLowered(msg) ==
    IF AnyKeyword(ClassifyKeywords.create_keywords, msg) THEN "create_appointment"
    ELSE IF AnyKeyword(ClassifyKeywords.cancel_keywords, msg) THEN "cancel_appointment"
    ELSE IF AnyKeyword(ClassifyKeywords.reschedule_keywords, msg) THEN "reschedule_appointment"
    ELSE IF AnyKeyword(ClassifyKeywords.status_keywords, msg) THEN "appointment_status"
    ELSE IF AnyKeyword(ClassifyKeywords.reminder_keywords, msg) THEN "appointment_reminder"
    ELSE IF AnyKeyword(ClassifyKeywords.followup_keywords, msg) THEN "follow_up"
    ELSE IF AnyKeyword(ClassifyKeywords.general_tool_keywords, msg) THEN "general_tools"
    ELSE IF FaqMatches(msg) THEN "faq"
    ELSE "rag"

\* classify_intent(user_message, business_context)
classify_intent(user_message) == ClassifyLowered(Strip(Lower(user_message)))

\* the pieces the classified messages are made of: a keyword of each group but
\* the status group, a status keyword (it holds the create keyword "slot"), a
\* second FAQ keyword, six words and seven words without a keyword
ClassifyFragments ==
    << <<"P","l","e","a","s","e"," ","B","O","O","K"," ">>,
       <<"c","a","n","c","e","l"," ">>,
       <<"R","e","s","c","h","e","d","u","l","e"," ">>,
       <<"m","y"," ","s","l","o","t"," ">>,
       <<"r","e","m","i","n","d","e","r"," ">>,
       <<"p","i","n","g"," ">>,
       <<"n","o","t","i","f","y"," ">>,
       <<"o","p","e","n"," ">>,
       <<"p","r","i","c","e"," ">>,
       <<"a"," ","b"," ","c"," ","d"," ","e"," ","f"," ">>,
       <<"g"," ","h"," ","i"," ","j"," ","k"," ","l"," ","m"," ">> >>

\* the messages classified: any of the pieces, in the order of ClassifyFragments,
\* after leading whitespace or none
ClassifyMessages ==
    {lead \o Concat([i \in DOMAIN ClassifyFragments |->
                        IF i \in picked THEN ClassifyFragments[i] ELSE <<>>]) :
        picked \in SUBSET DOMAIN ClassifyFragments, lead \in {<<>>, <<" ", "\n">>}}

\* classify_node: classify_intent(state["user_message"], state["business_context"])
Classify(user_message) ==
    /\ call = NoCall
    /\ call' = [op |-> "classify_intent", user_message |-> user_message,
                intent |-> classify_intent(user_message)]
    /\ UNCHANGED <<settings, outbound, vector_store, added, db, agent_vars>>

\* the graph takes the intent
ClassifyReturn ==
    /\ call # NoCall
    /\ call' = NoCall
    /\ UNCHANGED <<settings, outbound, vector_store, added, db, agent_vars>>

InitClassify ==
    /\ AgentIdle
    /\ settings = Absent
    /\ outbound = <<>>
    /\ vector_store = Absent
    /\ added = Absent
    /\ db = Absent
    /\ call = NoCall

\* the messages that are one keyword of a group and nothing else, and a greeting
KeywordMessages ==
    UNION {{ClassifyKeywords[g][i] : i \in DOMAIN ClassifyKeywords[g]} : g \in DOMAIN ClassifyKeywords}
    \cup {<<"h","i">>}

NextClassify ==
    \/ call = NoCall /\ \E user_message \in ClassifyMessages \cup KeywordMessages :
                            Classify(user_message)
    \/ ClassifyReturn

SpecClassify == InitClassify /\ [][NextClassify]_vars

(***************************************************************************)
(* app/routes: chat.py, appointments.py, business.py over the database     *)
(***************************************************************************)
\* how many businesses are registered, at most
MaxBusinesses == 1

\* how many leads, documents and appointments are stored in all, and how many
\* files are saved, at most
MaxRows == 2

\* the replies chat_endpoint gives when generate_answer gives none or raises
ChatText ==
    [thanks |->
        <<"T","h","a","n","k","s"," ","f","o","r"," ","y","o","u","r"," ","m","e","s","s","a","g","e",
        "."," ","I"," ","c","a","n"," ","s","h","a","r","e"," ","o","u","r"," ","s","e","r","v",
        "i","c","e","s",","," ","h","o","u","r","s",","," ","a","n","d"," ","b","a","s","i","c",
        " ","i","n","f","o","."," ","T","r","y"," ","a","s","k","i","n","g"," ","a","b","o","u",
        "t"," ","s","e","r","v","i","c","e","s"," ","o","r"," ","b","o","o","k","i","n","g",".">>,
     trouble |->
        <<"I","'","m"," ","h","a","v","i","n","g"," ","a"," ","b","i","t"," ","o","f"," ","t","r","o",
        "u","b","l","e"," ","a","n","s","w","e","r","i","n","g"," ","r","i","g","h","t"," ","n",
        "o","w",","," ","b","u","t"," ","y","o","u"," ","c","a","n"," ","a","s","k"," ","a","g",
        "a","i","n"," ","o","r"," ","c","o","n","t","a","c","t"," ","t","h","e"," ","b","u","s",
        "i","n","e","s","s"," ","d","i","r","e","c","t","l","y",".">>]

\* the tables (a Business row's id is its place in businesses; a Lead, Document
\* or Appointment row is told by its business_id) and the saved files
EmptyDb ==
    [businesses |-> <<>>, leads |-> <<>>, documents |-> <<>>, appointments |-> <<>>,
     files |-> <<>>]

\* str(n) for n >= 0
RECURSIVE IntStr(_)
IntStr(n) ==
    LET digit == <<"0","1","2","3","4","5","6","7","8","9">>[(n % 10) + 1]
    IN  IF n < 10 THEN <<digit>> ELSE IntStr(n \div 10) \o <<digit>>

\* a variant of first_business that finds a row for every id
first_business_Phantom(d, business_id) ==
    [id |-> business_id, contact_email |-> PyNone, contact_phone |-> PyNone]

\* db.query(Business).filter(Business.id == business_id).first()
first_business(d, business_id) ==
    IF business_id \in DOMAIN d.businesses THEN d.businesses[business_id] ELSE PyNone

\* what a handler did: the tables after it, the provider calls it made, its response
Handled(d, sent, response) ==
    [db |-> d, sent |-> sent, response |-> response, ingested |-> FALSE]

\* an HTTP response; escaped tells that an exception left the handler
Http(status, detail) == [status |-> status, detail |-> detail, escaped |-> FALSE]

\* an exception leaves the handler
Escaped(exc) == [status |-> 500, detail |-> exc, escaped |-> TRUE]

\* raise HTTPException(status_code=404, detail="Business not found")
NotFound == Http(404, "Business not found")

\* _business_context(business)
_business_context(business) == Context(business.contact_email, business.contact_phone)

\* _notify_new_lead and notify_document_upload: each send is tried when its
\* sender is enabled and the business has the contact; what a send raises is
\* swallowed. The provider calls made.
NotifyOwner(business, cfg, provider) ==
    (IF cfg.EMAIL_MCP_ENABLED /\ Truthy(business.contact_email)
     THEN send_email(business.contact_email, 0, cfg, provider).outbound ELSE <<>>)
    \o
    (IF cfg.WHATSAPP_MCP_ENABLED /\ Truthy(business.contact_phone)
     THEN send_whatsapp_message(business.contact_phone, PyStr(<<"v">>), cfg, provider).outbound
     ELSE <<>>)

\* a variant of IsNewConversation that takes every request for a new conversation
IsNewConversation_Always(conversation_id) == TRUE

\* if not request.conversation_id:
IsNewConversation(conversation_id) == ~Truthy(conversation_id)

\* rag_result.get("reply") or "Thanks ..." inside try, "I'm having ..." on any
\* exception; env.hf is what the inference API did, or "raises" when
\* generate_answer raises
ChatReply(user_message, business, hf) ==
    IF hf.kind = "raises" THEN ChatText.trouble
    ELSE LET r == generate_answer(user_message, _business_context(business),
                                  DocsReturned(<<>>), hf).reply
         IN  IF r # <<>> THEN r ELSE ChatText.thanks

\* ChatResponse(reply, conversation_id=request.conversation_id or f"conv_{business.id}",
\* tool_actions=[])
ChatResponse(reply, conversation_id, business) ==
    [status |-> 200, detail |-> "", escaped |-> FALSE, reply |-> reply, tool_actions |-> <<>>,
     conversation_id |-> IF Truthy(conversation_id) THEN conversation_id
                         ELSE PyStr(<<"c","o","n","v","_">> \o IntStr(business.id))]

\* chat_endpoint(request); env.commit is what db.commit() did
chat_endpoint(d, request, cfg, env) ==
    LET business == first_business(d, request.business_id)
    IN  IF business = PyNone THEN Handled(d, <<>>, NotFound)
        ELSE IF ~IsNewConversation(request.conversation_id)
        THEN Handled(d, <<>>,
                ChatResponse(ChatReply(request.user_message, business, env.hf),
                             request.conversation_id, business))
        ELSE IF env.commit # "ok" THEN Handled(d, <<>>, Escaped("SQLAlchemyError"))
        ELSE Handled([d EXCEPT !.leads = Append(@, business.id)],
                     NotifyOwner(business, cfg, env.provider),
                     ChatResponse(ChatReply(request.user_message, business, env.hf),
                                  request.conversation_id, business))

\* the response of a handler that has not returned yet
Running == [status |-> 0, detail |-> "", escaped |-> FALSE]

\* a variant of AppointmentRow whose status is not the column's default
AppointmentRow_Pending(payload) ==
    [business_id |-> payload.business_id, customer_email |-> payload.customer_email,
     status |-> "pending"]

\* Appointment(business_id=..., customer_email=...) once committed and refreshed:
\* status is the column's default
AppointmentRow(payload) ==
    [business_id |-> payload.business_id, customer_email |-> payload.customer_email,
     status |-> "scheduled"]

\* AppointmentResponse(id=appt.id, ..., status=appt.status, ...)
AppointmentResponse(appt) ==
    [status |-> 200, detail |-> "", escaped |-> FALSE, appointment |-> appt]

\* create_appointment(payload) up to db.refresh(appt), the handler's first part
\* that runs without awaiting; payload.well_formed tells whether date and time parse
save_appointment(d, payload, env) ==
    LET business == first_business(d, payload.business_id)
    IN  IF business = PyNone THEN Handled(d, <<>>, NotFound)
        ELSE IF ~payload.well_formed
        THEN Handled(d, <<>>, Http(400, "Invalid date/time format"))
        ELSE IF env.commit # "ok" THEN Handled(d, <<>>, Escaped("SQLAlchemyError"))
        ELSE Handled([d EXCEPT !.appointments = Append(@, AppointmentRow(payload))],
                     <<>>, Running)

\* create_appointment(payload) from the confirmation email on: what send_email
\* and create_event raise is swallowed, and the stored row is returned
confirm_appointment(d, payload, cfg, provider) ==
    Handled(d,
            (IF Truthy(payload.customer_email)
             THEN send_email(payload.customer_email, 0, cfg, provider).outbound
             ELSE <<>>)
            \o create_event(AppointmentEventKwargs(payload.customer_email), cfg,
                            [i \in 1..MaxAttendees |-> provider]).outbound,
            AppointmentResponse(d.appointments[Len(d.appointments)]))

\* create_appointment(payload), from its first line to its return
create_appointment(d, payload, cfg, env) ==
    LET saved == save_appointment(d, payload, env)
    IN  IF saved.response # Running THEN saved
        ELSE confirm_appointment(saved.db, payload, cfg, env.provider)

\* upload_documents(business_id, file): every exception raised inside its try,
\* the HTTPException of an unknown business and of a file that is no PDF too,
\* is answered with 500; file.text is the text PyPDF2 extracts
upload_documents(d, business_id, file, cfg, env) ==
    LET business == first_business(d, business_id)
        saved    == [d EXCEPT !.files = Append(@, business_id)]
    IN  IF business = PyNone
        THEN Handled(d, <<>>, Http(500, "Error uploading document: 404: Business not found"))
        ELSE IF ~file.is_pdf
        THEN Handled(d, <<>>,
                Http(500, "Error uploading document: 400: Only PDF files are supported"))
        ELSE IF env.commit # "ok"
        THEN Handled(saved, <<>>, Http(500, "Error uploading document: SQLAlchemyError"))
        ELSE [Handled([saved EXCEPT !.documents = Append(@, business_id)],
                      NotifyOwner(business, cfg, env.provider), Http(200, ""))
                EXCEPT !.ingested = (Strip(file.text) # <<>>)]

\* register_business(business_data)
register_business(d, data, env) ==
    IF env.commit # "ok" THEN Handled(d, <<>>, Http(500, "Error registering business"))
    ELSE Handled([d EXCEPT !.businesses =
                        Append(@, [id |-> Len(d.businesses) + 1,
                                   contact_email |-> data.contact_email,
                                   contact_phone |-> data.contact_phone])],
                 <<>>, Http(200, ""))

\* update_business(business_id, business_data)
update_business(d, business_id, data, env) ==
    IF first_business(d, business_id) = PyNone THEN Handled(d, <<>>, NotFound)
    ELSE IF env.commit # "ok" THEN Handled(d, <<>>, Http(500, "Error updating business"))
    ELSE Handled([d EXCEPT !.businesses[business_id].contact_email = data.contact_email,
                           !.businesses[business_id].contact_phone = data.contact_phone],
                 <<>>, Http(200, ""))

\* get_business(business_id) and get_business_documents(business_id)
get_business(d, business_id) ==
    IF first_business(d, business_id) = PyNone THEN Handled(d, <<>>, NotFound)
    ELSE Handled(d, <<>>, Http(200, ""))

\* the business ids requests name: the registered ones and one more
RequestIds == 1..(MaxBusinesses + 1)

\* the contact fields a business is registered or updated with
BusinessData ==
    {[contact_email |-> PyNone, contact_phone |-> PyNone],
     [contact_email |-> PyStr(Business.owner_email), contact_phone |-> PyStr(Business.owner_phone)]}

\* what the database, the providers and the inference API do during a request
ApiEnvs ==
    [commit : {"ok", "error"}, provider : {"ok", "error"},
     hf : {[kind |-> "raises", text |-> <<>>], [kind |-> "no_key", text |-> <<>>],
           [kind |-> "text", text |-> <<"W","e"," ","o","p","e","n"," ","a","t"," ","9",".">>]}]

\* the outcomes of a request that reaches the database alone
CommitEnvs == {e \in ApiEnvs : e.provider = "ok" /\ e.hf.kind = "no_key"}

\* the conversation_id of a chat request: absent, empty, the one a reply gave
ConversationIds == {PyNone, PyStr(<<>>), PyStr(<<"c","o","n","v","_","1">>)}

\* there is room for one more lead, document or appointment, and for one more file
RoomForRow ==
    /\ Len(db.leads) + Len(db.documents) + Len(db.appointments) < MaxRows
    /\ Len(db.files) < MaxRows

\* a request is answered: what the handler did is stored and recorded
Respond(op, request, r) ==
    /\ db' = r.db
    /\ outbound' = outbound \o r.sent
    /\ call' = [op |-> op, request |-> request, response |-> r.response,
                before |-> [db |-> db, outbound |-> outbound, vector_store |-> vector_store]]
    /\ UNCHANGED <<settings, agent_vars>>

\* POST /chat/
Chat(request, env) ==
    /\ call = NoCall
    /\ RoomForRow
    /\ Respond("chat_endpoint", request, chat_endpoint(db, request, settings, env))
    /\ UNCHANGED <<vector_store, added>>

\* POST /appointments/: the handler runs up to its first await; a request
\* answered with an error or left by an exception is over with it
CreateAppointment(payload, env) ==
    /\ call = NoCall
    /\ RoomForRow
    /\ Respond("create_appointment", payload, save_appointment(db, payload, env))
    /\ UNCHANGED <<vector_store, added>>

\* POST /appointments/, resumed: the notifications are tried and the row returned
ConfirmAppointment(provider) ==
    /\ call # NoCall
    /\ call.op = "create_appointment"
    /\ call.response = Running
    /\ \E r \in {confirm_appointment(db, call.request, settings, provider)} :
        /\ outbound' = outbound \o r.sent
        /\ call' = [op |-> call.op, request |-> call.request, response |-> r.response,
                    before |-> call.before, provider |-> provider]
    /\ UNCHANGED <<db, settings, vector_store, added, agent_vars>>

\* POST /business/upload-docs: the text of the file is added to the vector store
\* when there is any; what add_documents raises is swallowed
UploadDocuments(business_id, file, env, store_env) ==
    /\ call = NoCall
    /\ RoomForRow
    /\ \E r \in {upload_documents(db, business_id, file, settings, env)} :
        /\ Respond("upload_documents", [business_id |-> business_id, file |-> file], r)
        /\ IF r.ingested
           THEN /\ vector_store' =
                        add_documents(vector_store, business_id, <<file.text>>, store_env).store
                /\ added' = [calls |-> added.calls + 1,
                             chunks |-> [added.chunks EXCEPT ![business_id] = @ \cup {file.text}]]
           ELSE UNCHANGED <<vector_store, added>>

\* POST /business/register
RegisterBusiness(data, env) ==
    /\ call = NoCall
    /\ Len(db.businesses) < MaxBusinesses
    /\ Respond("register_business", data, register_business(db, data, env))
    /\ UNCHANGED <<vector_store, added>>

\* PATCH /business/update/{business_id}
UpdateBusiness(business_id, data, env) ==
    /\ call = NoCall
    /\ Respond("update_business", [business_id |-> business_id, data |-> data],
               update_business(db, business_id, data, env))
    /\ UNCHANGED <<vector_store, added>>

\* GET /business/{business_id} and GET /business/{business_id}/documents
GetBusiness(op, business_id) ==
    /\ call = NoCall
    /\ Respond(op, [business_id |-> business_id], get_business(db, business_id))
    /\ UNCHANGED <<vector_store, added>>

\* the response is sent
ApiReturn ==
    /\ call # NoCall
    /\ call.response # Running
    /\ call' = NoCall
    /\ UNCHANGED <<settings, outbound, vector_store, added, db, agent_vars>>

\* an empty database, and the simple vector store with no file
InitApi ==
    /\ settings \in Settings
    /\ AgentIdle
    /\ outbound = <<>>
    /\ db = EmptyDb
    /\ vector_store = [mode |-> "simple", embedding_model |-> FALSE,
                       files |-> [p \in RequestIds |-> [kind |-> "missing", entries |-> <<>>]],
                       collections |-> [b \in RequestIds |-> <<>>]]
    /\ added = [calls |-> 0, chunks |-> [b \in RequestIds |-> {}]]
    /\ call = NoCall

\* the bodies of the requests: ChatRequest, AppointmentCreate, the uploaded file
\* what a user writes: a greeting, a booking request without a date, and one
\* with a date and a time
ChatMessages == {<<"h","i">>, Fragments[1], Concat(Fragments)}

ChatRequests ==
    [business_id : RequestIds, conversation_id : ConversationIds, user_message : ChatMessages]

AppointmentPayloads ==
    [business_id : RequestIds, customer_email : {PyNone, PyStr(Generated.customer_email)},
     well_formed : BOOLEAN]

UploadFiles == [is_pdf : BOOLEAN, text : {<<>>, <<"H","o","u","r","s">>}]

\* the handlers below the LLM call meet no LLM outcome but the missing key
QuietEnvs == {e \in ApiEnvs : e.hf.kind = "no_key"}

NextApi ==
    \/ \E request \in ChatRequests, env \in ApiEnvs : Chat(request, env)
    \/ \E payload \in AppointmentPayloads, env \in QuietEnvs : CreateAppointment(payload, env)
    \/ \E provider \in {"ok", "error"} : ConfirmAppointment(provider)
    \/ \E business_id \in RequestIds, file \in UploadFiles, env \in QuietEnvs,
          store_env \in EnvsFor(vector_store, TRUE) :
            UploadDocuments(business_id, file, env, store_env)
    \/ \E data \in BusinessData, env \in CommitEnvs : RegisterBusiness(data, env)
    \/ \E business_id \in RequestIds, data \in BusinessData, env \in CommitEnvs :
            UpdateBusiness(business_id, data, env)
    \/ \E business_id \in RequestIds, op \in {"get_business", "get_business_documents"} :
            GetBusiness(op, business_id)
    \/ ApiReturn

SpecApi == InitApi /\ [][NextApi]_vars

(***************************************************************************)
(* The event loop that serves chat requests (routes/chat.py under uvicorn) *)
(***************************************************************************)
\* how many chat requests arrive, at most
MaxRequests == 3

\* a chat request the server holds: task.pc is
\*   "accepted"   received, its handler not started yet
\*   "notifying"  suspended at await send_email(...) of _notify_new_lead
\*   "ready"      the send is over, the handler waits for the loop to resume it
\*   "generating" inside generate_answer(...), a plain function call
\*   "done"       the ChatResponse is returned
ChatTask(request, at, reply) == [request |-> request, pc |-> at, reply |-> reply]

\* the chat requests served here: a first message and a later one of a conversation
ServedRequests ==
    {r \in ChatRequests : r.business_id = 1 /\ r.user_message = <<"h","i">>
                          /\ r.conversation_id # PyStr(<<>>)}

\* the blocking call that holds the one thread of the event loop
Blocking(i) == [op |-> "generate_answer", task |-> i]

\* the handler enters generate_answer: chat_endpoint is a coroutine and calls it
\* without await, executor or thread, so the loop's thread stays inside the call
\* (vector_store.query_documents, httpx.Client.post with its timeout of 80 s)
\* until it returns
EnterGenerate(i) ==
    /\ tasks' = [tasks EXCEPT ![i].pc = "generating"]
    /\ call' = Blocking(i)

\* a request arrives on the socket
Arrive(request) ==
    /\ Len(tasks) < MaxRequests
    /\ tasks' = Append(tasks, ChatTask(request, "accepted", <<>>))
    /\ UNCHANGED <<settings, outbound, vector_store, added, db, call,
                   loop, pc, state, raised, generated, routed, rerouted, log>>

\* the loop starts the handler of request i: it runs to its first await that
\* suspends, await aiosmtplib.send inside send_email, or without one into
\* generate_answer
StartHandler(i) ==
    /\ call = NoCall
    /\ tasks[i].pc = "accepted"
    /\ \E business \in {first_business(db, tasks[i].request.business_id)} :
        IF ~IsNewConversation(tasks[i].request.conversation_id)
        THEN /\ EnterGenerate(i)
             /\ UNCHANGED <<db, outbound>>
        ELSE /\ db' = [db EXCEPT !.leads = Append(@, business.id)]
             /\ IF settings.EMAIL_MCP_ENABLED /\ Truthy(business.contact_email)
                   /\ send_email(business.contact_email, 0, settings, "ok").outbound # <<>>
                THEN /\ outbound' = outbound \o
                            send_email(business.contact_email, 0, settings, "ok").outbound
                     /\ tasks' = [tasks EXCEPT ![i].pc = "notifying"]
                     /\ UNCHANGED call
                ELSE /\ EnterGenerate(i)
                     /\ UNCHANGED outbound
    /\ UNCHANGED <<settings, vector_store, added,
                   loop, pc, state, raised, generated, routed, rerouted, log>>

\* the SMTP exchange of request i is over: its handler can be resumed
NotifyDone(i) ==
    /\ tasks[i].pc = "notifying"
    /\ tasks' = [tasks EXCEPT ![i].pc = "ready"]
    /\ UNCHANGED <<settings, outbound, vector_store, added, db, call,
                   loop, pc, state, raised, generated, routed, rerouted, log>>

\* the loop resumes the handler of request i after its await
ResumeHandler(i) ==
    /\ call = NoCall
    /\ tasks[i].pc = "ready"
    /\ EnterGenerate(i)
    /\ UNCHANGED <<settings, outbound, vector_store, added, db,
                   loop, pc, state, raised, generated, routed, rerouted, log>>

\* generate_answer of request i returns, after hf, what the inference API did;
\* the handler builds its ChatResponse and the loop's thread is free again
GenerateReturns(i, hf) ==
    /\ call = Blocking(i)
    /\ tasks' = [tasks EXCEPT
                    ![i] = ChatTask(@.request, "done",
                                    ChatReply(@.request.user_message,
                                              first_business(db, @.request.business_id), hf))]
    /\ call' = NoCall
    /\ UNCHANGED <<settings, outbound, vector_store, added, db,
                   loop, pc, state, raised, generated, routed, rerouted, log>>

\* what the inference API does
LoopLlmOutcomes == {e.hf : e \in ApiEnvs}

\* one business with a contact email is registered, no request has arrived
InitLoop ==
    /\ settings \in Settings
    /\ loop = "current"
    /\ pc = "idle"
    /\ state = Absent /\ generated = Absent /\ routed = Absent /\ rerouted = Absent
    /\ raised = "none"
    /\ log = <<>>
    /\ tasks = <<>>
    /\ outbound = <<>>
    /\ db = [EmptyDb EXCEPT !.businesses =
                <<[id |-> 1, contact_email |-> PyStr(Business.owner_email),
                   contact_phone |-> PyNone]>>]
    /\ vector_store = Absent
    /\ added = Absent
    /\ call = NoCall

NextLoop ==
    \/ \E request \in ServedRequests : Arrive(request)
    \/ \E i \in DOMAIN tasks : StartHandler(i)
    \/ \E i \in DOMAIN tasks : NotifyDone(i)
    \/ \E i \in DOMAIN tasks : ResumeHandler(i)
    \/ \E i \in DOMAIN tasks, hf \in LoopLlmOutcomes : GenerateReturns(i, hf)

SpecLoop == InitLoop /\ [][NextLoop]_vars

(***************************************************************************)
(* generate_answer called with every message, whatever the inference API    *)
(* would do                                                                *)
(***************************************************************************)
\* generate_answer(business_id, user_message, metadata_context) over an empty
\* store; hf is what the inference API does if it is called
AnswerDirect(user_message, meta, hf) ==
    /\ call = NoCall
    /\ \E r \in {generate_answer(user_message, meta, DocsReturned(<<>>), hf)} :
        call' = [op |-> "generate_answer", user_message |-> user_message, meta |-> meta,
                 hf |-> hf, reply |-> r.reply, llm_calls |-> r.llm_calls]
    /\ UNCHANGED <<settings, outbound, db, vector_store, added, agent_vars>>

InitAnswer ==
    /\ AgentIdle
    /\ settings = Absent
    /\ outbound = <<>>
    /\ db = Absent
    /\ vector_store = Absent
    /\ added = Absent
    /\ call = NoCall

NextAnswer ==
    \/ \E user_message \in Messages, meta \in RagContexts, hf \in RagLlmOutcomes :
            AnswerDirect(user_message, meta, hf)
    \/ Return

SpecAnswer == InitAnswer /\ [][NextAnswer]_vars

(***************************************************************************)
(* What the properties below speak of                                      *)
(***************************************************************************)
\* the request was served by answer_node
Answered == pc = "answer"

\* answer_node returned (no exception left it)
AnswerReturned == pc = "answer" /\ raised = "none"

\* p is what json_loads gave for a reply: the reply is an object whose call_tool
\* is an object
HasCallObject(p) ==
    /\ p.ok
    /\ p.val.type = "dict"
    /\ Get(p.val, RouterKey.call_tool).type = "dict"

\* the answer field, the name and the params of such a reply (None when absent)
AnswerOf(p) == Get(p.val, RouterKey.answer)

NameOf(p) == Get(Get(p.val, RouterKey.call_tool), RouterKey.name)

ParamsOf(p) == Get(Get(p.val, RouterKey.call_tool), RouterKey.params)

\* the action names tool_router knows
RecognizedNames ==
    {ToolName.send_whatsapp_message, ToolName.send_email, ToolName.create_event, ToolName.update_event, ToolName.cancel_event}
    \cup WhatsappWrappers \cup EmailWrappers

\* the message holds a YYYY-MM-DD date / an HH:MM time
MessageHasDate ==
    \E i \in 1..Len(state.user_message) : MatchesAt(state.user_message, DatePattern, i)

MessageHasTime ==
    \E i \in 1..Len(state.user_message) : MatchesAt(state.user_message, TimePattern, i)

\* the business context has neither contact_email nor contact_phone
NoContact ==
    /\ ~Truthy(Get(state.business_context, RouterKey.contact_email))
    /\ ~Truthy(Get(state.business_context, RouterKey.contact_phone))

\* no send was scheduled and nothing was sent
NothingScheduled == tasks = <<>> /\ outbound = <<>>

(***************************************************************************)
(* C1                                                                      *)
(***************************************************************************)
\* C1: for a message with a booking or WhatsApp keyword that lacks a date or lacks
\* a time, generate_answer replies the fixed clarification text, which is no
\* structured payload, and tool_router gives it back with an empty action list
\* and schedules no send
C1_ClarificationWithoutDateOrTime ==
    (Answered /\ user_wants_tool(state.user_message) /\ (~MessageHasDate \/ ~MessageHasTime))
    => /\ generated = ClarificationText
       /\ ~json_loads(generated).ok
       /\ raised = "none"
       /\ routed.reply = PyStr(ClarificationText)
       /\ routed.tool_actions = <<>>
       /\ routed.coros = <<>>
       /\ NothingScheduled

\* a message with a keyword and a date but no time was answered by the clarification
C1_Witness ==
    /\ Answered
    /\ user_wants_tool(state.user_message)
    /\ MessageHasDate /\ ~MessageHasTime
    /\ generated = ClarificationText
    /\ state.response = PyStr(ClarificationText)
    /\ state.tool_actions = <<>>

(***************************************************************************)
(* C2                                                                      *)
(***************************************************************************)
\* the message holds a booking keyword
MessageHasBookingKeyword ==
    \E k \in DOMAIN BOOKING_KEYWORDS : Contains(Lower(state.user_message), BOOKING_KEYWORDS[k])

\* C2: for a message with a booking keyword, a date and a time, answer_node ends
\* with exactly one entry in tool_actions, a create_event action, exactly one
\* create_event send scheduled, and the date and time in the event title
C2_BookingCreatesOneEvent ==
    (Answered /\ MessageHasBookingKeyword /\ MessageHasDate /\ MessageHasTime)
    => /\ raised = "none"
       /\ state.tool_actions = <<ActionEntry(RouterKey.calendar, PyStr(ToolName.create_event))>>
       /\ Len(routed.coros) = 1
       /\ routed.coros[1].func = ToolName.create_event
       /\ Contains(Item(routed.coros[1].kwargs, RagKey.title).s,
                   re_search(DatePattern, state.user_message).s)
       /\ Contains(Item(routed.coros[1].kwargs, RagKey.title).s,
                   re_search(TimePattern, state.user_message).s)

(***************************************************************************)
(* C3                                                                      *)
(***************************************************************************)
\* the reply is a payload that calls send_email with a non-empty to and body
SendEmailWithToAndBody(p) ==
    /\ HasCallObject(p)
    /\ NameOf(p) = PyStr(ToolName.send_email)
    /\ ParamsOf(p).type = "dict"
    /\ Truthy(Get(ParamsOf(p), RouterKey.to))
    /\ Truthy(Get(ParamsOf(p), RouterKey.body))

\* exactly one action entry, tagged email / send_email, with the payload's to
OneEmailEntry(p) ==
    routed.tool_actions =
        << PyDict(<< <<RouterKey.tool, PyStr(RouterKey.email)>>, <<RouterKey.action, PyStr(ToolName.send_email)>>,
                     <<RouterKey.to, Get(ParamsOf(p), RouterKey.to)>> >>) >>

\* C3 as stated: for a payload calling send_email with a non-empty to and body,
\* the reply equals the payload's answer field and there is exactly one action
\* entry, tagged email / send_email, carrying that to
C3_ReplyIsAnswerField ==
    Answered =>
        LET p == json_loads(generated)
        IN  SendEmailWithToAndBody(p)
            => /\ raised = "none"
               /\ routed.reply = AnswerOf(p)
               /\ OneEmailEntry(p)

\* C3 amended: the reply equals the payload's answer field when that is non-empty
\* and the raw input text when it is absent, null or empty; the action list is as
\* stated
C3_ReplyIsAnswerOrRawText ==
    Answered =>
        LET p == json_loads(generated)
        IN  SendEmailWithToAndBody(p)
            => /\ raised = "none"
               /\ routed.reply = (IF Truthy(AnswerOf(p)) THEN AnswerOf(p) ELSE PyStr(generated))
               /\ OneEmailEntry(p)

\* a send_email payload with an answer was routed: the reply is the answer
C3_Witness ==
    /\ Answered
    /\ SendEmailWithToAndBody(json_loads(generated))
    /\ routed.reply = PyStr(Generated.A)
    /\ Len(routed.tool_actions) = 1

(***************************************************************************)
(* C4                                                                      *)
(***************************************************************************)
\* C4: for a reply that is not parseable as JSON, tool_router returns it unchanged
\* with an empty action list and schedules no send, and a second call with the same
\* input and context returns the identical result
C4_PlainTextIdempotent ==
    (Answered /\ ~json_loads(generated).ok)
    => /\ routed.exc = "none"
       /\ routed.reply = PyStr(generated)
       /\ routed.tool_actions = <<>>
       /\ routed.coros = <<>>
       /\ NothingScheduled
       /\ (rerouted # Absent => rerouted = routed)

\* tool_router was called twice with a non-empty text that is no JSON
C4_Witness ==
    /\ Answered
    /\ rerouted # Absent
    /\ rerouted = routed
    /\ generated # <<>>
    /\ routed.reply = PyStr(generated)
    /\ ~json_loads(generated).ok

(***************************************************************************)
(* C5                                                                      *)
(***************************************************************************)
\* the reply is a payload whose call_tool.name is no recognized action name
UnknownToolName(p) ==
    /\ HasCallObject(p)
    /\ ~(NameOf(p).type = "str" /\ NameOf(p).s \in RecognizedNames)

\* C5 as stated: for a payload whose call_tool.name is not recognized, no send is
\* scheduled, the action list is empty and the reply is the payload's answer
\* field, or the raw input text when answer is absent
C5_UnknownToolAnswerField ==
    Answered =>
        LET p == json_loads(generated)
        IN  UnknownToolName(p)
            => /\ raised = "none"
               /\ NothingScheduled
               /\ routed.tool_actions = <<>>
               /\ routed.reply = (IF HasKey(p.val, RouterKey.answer)
                                  THEN Item(p.val, RouterKey.answer) ELSE PyStr(generated))

\* C5 amended: as stated, but when the name is a non-empty unrecognized value the
\* reply is the raw input text also for an answer that is null or empty
C5_UnknownToolAnswerOrRawText ==
    Answered =>
        LET p == json_loads(generated)
        IN  UnknownToolName(p)
            => /\ raised = "none"
               /\ NothingScheduled
               /\ routed.tool_actions = <<>>
               /\ routed.reply =
                    (IF Truthy(NameOf(p)) /\ ~Truthy(AnswerOf(p)) THEN PyStr(generated)
                     ELSE IF HasKey(p.val, RouterKey.answer) THEN Item(p.val, RouterKey.answer)
                     ELSE PyStr(generated))

\* a payload naming an unknown tool, with an empty answer, got the raw text back
C5_Witness ==
    /\ Answered
    /\ routed.reply = PyStr(generated)
    /\ routed.tool_actions = <<>>
    /\ LET p == json_loads(generated)
       IN  /\ UnknownToolName(p)
           /\ NameOf(p) = PyStr(Generated.foo)
           /\ AnswerOf(p) = PyStr(<<>>)

(***************************************************************************)
(* C6                                                                      *)
(***************************************************************************)
\* the parameters the payload has to give for the sender to be callable: those the
\* sender requires and tool_router does not fill in
RequiredOfPayload(name) ==
    IF name = ToolName.create_event THEN SenderSignature(name).required \ {RouterKey.attendees_emails}
    ELSE SenderSignature(name).required

\* the reply calls a sender tool_router binds params to, without a required one
MissingRequiredParam(p) ==
    /\ HasCallObject(p)
    /\ NameOf(p).type = "str"
    /\ NameOf(p).s \in EmailWrappers \cup {ToolName.create_event, ToolName.update_event, ToolName.cancel_event}
    /\ ParamsOf(p).type = "dict"
    /\ ~(RequiredOfPayload(NameOf(p).s) \subseteq Keys(ParamsOf(p)))

\* C6: when the params omit a parameter the sender requires, tool_router skips the
\* action silently (no send scheduled, no action entry) and still returns the
\* reply instead of raising
C6_MissingParamSkipped ==
    Answered =>
        LET p == json_loads(generated)
        IN  MissingRequiredParam(p)
            => /\ raised = "none"
               /\ routed.tool_actions = <<>>
               /\ routed.coros = <<>>
               /\ NothingScheduled
               /\ routed.reply.type = "str"

(***************************************************************************)
(* C7                                                                      *)
(***************************************************************************)
\* the destinations a coroutine sends to are all non-empty
HasDestinations(coro) ==
    IF coro.func \in {ToolName.create_event, ToolName.update_event, ToolName.cancel_event}
    THEN /\ \A i \in DOMAIN Item(coro.kwargs, RouterKey.attendees_emails).items :
                Truthy(Item(coro.kwargs, RouterKey.attendees_emails).items[i])
         /\ ~HasKey(coro.kwargs, RouterKey.whatsapp_to)
    ELSE Truthy(Get(coro.kwargs, RouterKey.to))

\* the reply calls send_email or send_whatsapp_message and names no destination
CallWithoutDestination(p) ==
    /\ HasCallObject(p)
    /\ NameOf(p) \in {PyStr(ToolName.send_email), PyStr(ToolName.send_whatsapp_message)}
    /\ ~Truthy(Get(ParamsOf(p), RouterKey.to))

NoUsableCall(p) ==
    /\ p.ok
    /\ \/ p.val.type # "dict"
       \/ ~HasKey(p.val, RouterKey.call_tool)
       \/ Get(p.val, RouterKey.call_tool).type # "dict"

\* C8: for a reply that parses as JSON and holds no usable call, tool_router is in
\* plain-text mode: it returns a result with an empty action list, schedules
\* nothing, and never raises
C8_NoUsableCallIsPlainText ==
    (Answered /\ NoUsableCall(json_loads(generated)))
    => /\ raised = "none"
       /\ routed.exc = "none"
       /\ routed.tool_actions = <<>>
       /\ NothingScheduled

(***************************************************************************)
(* C9                                                                      *)
(***************************************************************************)
\* C9: for a non-empty generator output, the reply tool_router returns, and the
\* response answer_node stores, is a non-empty string
C9_ReplyNeverEmpty ==
    (AnswerReturned /\ generated # <<>>)
    => /\ routed.reply.type = "str"
       /\ routed.reply.s # <<>>
       /\ state.response = routed.reply

(***************************************************************************)
(* C10                                                                     *)
(***************************************************************************)
\* the log entry the done callback of task i writes
DoneEntry(i) ==
    [event |-> IF tasks'[i].exc = "none" THEN "tool.completed" ELSE "tool.error",
     tool  |-> tasks[i].label]

\* C10: tool_router returns without waiting for the send it scheduled (the task is
\* pending and nothing was sent when it returns), and when the send later ends,
\* by success, by a failure result or by raising, the reply and the action list
\* already returned are unchanged, no exception reaches the caller, and the
\* outcome is only logged
C10_SendNotAwaited ==
    [][ /\ (pc = "idle" /\ pc' = "answer")
            => /\ \A i \in DOMAIN tasks' : tasks'[i].status = "pending"
               /\ Len(tasks') = Len(routed'.coros) \/ loop = "none"
               /\ outbound' = outbound
        /\ (rerouted = Absent /\ rerouted' # Absent)
            => /\ \A i \in (Len(tasks) + 1)..Len(tasks') : tasks'[i].status = "pending"
               /\ outbound' = outbound
        /\ \A i \in DOMAIN tasks :
            (tasks[i].status = "pending" /\ tasks'[i].status = "done")
            => /\ routed' = routed
               /\ rerouted' = rerouted
               /\ state' = state
               /\ raised' = raised
               /\ log' = Append(log, DoneEntry(i))
      ]_vars

\* a scheduled send raised after the router had returned its reply and action list
C10_WitnessSendRaised ==
    /\ AnswerReturned
    /\ routed.tool_actions # <<>>
    /\ state.tool_actions = routed.tool_actions
    /\ \E i \in DOMAIN tasks :
        /\ tasks[i].status = "done"
        /\ tasks[i].exc # "none"
        /\ log[Len(log)] = LogEntry("tool.error", tasks[i].label)

(***************************************************************************)
(* C11                                                                     *)
(***************************************************************************)
\* the inference API failed, or the text it generated is empty once cleaned
GenerationFailed(hf) ==
    \/ hf.kind \in {"no_key", "status", "exception"}
    \/ hf.kind = "text" /\ Strip(CutAtMarker(hf.text)) = <<>>

\* C11: when the text-generation backend fails (missing key, non-200 status,
\* exception) or returns empty output, the reply of generate_answer is the summary
\* _fallback_from_metadata builds from the business metadata; and the reply of
\* generate_answer is never empty.
C11_FailureGivesMetadataSummary ==
    call.op = "generate_answer" =>
        /\ call.reply # <<>>
        /\ GenerationFailed(call.hf) =>
                call.reply = _fallback_from_metadata(call.user_message, call.meta)

(***************************************************************************)
(* C12                                                                     *)
(***************************************************************************)
\* the document backend fails the query of business_id: Chroma is unavailable; the
\* file of the simple store is no list of entries; the query cannot be embedded
\* where the simple store ranks by similarity. (In Chroma mode a query that cannot
\* be embedded is asked as text.)
StoreFailed(vs, business_id, env) ==
    IF vs.mode = "chroma" THEN env.client = "error"
    ELSE LET file == vs.files[_simple_path(business_id)]
         IN  \/ file.kind \in {"unreadable", "not_list"}
             \/ \E i \in DOMAIN file.entries : file.entries[i].kind # "entry"
             \/ /\ env.encode = "error"
                /\ \E i \in DOMAIN file.entries : file.entries[i].embedding

\* C12: when the document backend fails during a query, query_documents returns
\* an empty list and does not raise, in Chroma mode and in the simple mode, and
\* generate_answer completes and reports documents_used = 0.
C12_StoreFailureGivesEmptyList ==
    /\ (call.op = "query_documents" /\ StoreFailed(vector_store, call.business_id, call.env))
            => (~call.result.raised /\ call.result.docs = <<>>)
    /\ (call.op = "generate_answer" /\ StoreFailed(vector_store, call.business_id, call.env))
            => (~call.query.raised /\ call.documents_used = 0)

(***************************************************************************)
(* C13                                                                     *)
(***************************************************************************)
\* C13: after any sequence of add_documents calls, query_documents(business_id,
\* query, n_results) returns at most n_results entries and every returned text is
\* a chunk that was added under that business_id.
C13_QueryBoundedAndOwned ==
    call.op = "query_documents" =>
        /\ Len(call.result.docs) <= call.n_results
        /\ \A i \in DOMAIN call.result.docs :
                call.result.docs[i] \in added.chunks[call.business_id]

\* two businesses hold different chunks and a query of one of them returns a chunk
C13_Witness ==
    /\ call.op = "query_documents"
    /\ added.chunks[1] # {}
    /\ added.chunks[2] # {}
    /\ added.chunks[1] \cap added.chunks[2] = {}
    /\ Len(call.result.docs) = 1

\* a query of a business holding two matching chunks is cut to n_results = 1
C13_WitnessCut ==
    /\ call.op = "query_documents"
    /\ call.n_results = 1
    /\ Cardinality(added.chunks[call.business_id]) = 2
    /\ Len(call.result.docs) = 1

(***************************************************************************)
(* C14                                                                     *)
(***************************************************************************)
\* the sender op is switched off by configuration
SenderDisabled(op, cfg) ==
    IF op = "send_email" THEN ~cfg.EMAIL_MCP_ENABLED ELSE ~cfg.WHATSAPP_MCP_ENABLED

\* the sender op is switched on and its provider credentials are not set
CredentialsMissing(op, cfg) ==
    IF op = "send_email"
    THEN cfg.EMAIL_MCP_ENABLED /\ (~Truthy(cfg.EMAIL_HOST) \/ ~Truthy(cfg.EMAIL_USERNAME))
    ELSE cfg.WHATSAPP_MCP_ENABLED /\ ~Truthy(cfg.WHATSAPP_ACCESS_TOKEN)

\* what the call recorded in c gives under the settings cfg
ResultUnder(c, cfg) ==
    IF c.op = "send_email" THEN send_email(c.args.to, 0, cfg, c.args.provider)
    ELSE send_whatsapp_message(c.args.to, PyStr(<<"h","i">>), cfg, c.args.provider)

\* a send_email or send_whatsapp_message call to a well-formed recipient
SenderCall ==
    /\ call.op \in {"send_email", "send_whatsapp_message"}
    /\ call.op = "send_email" => _is_valid_email(call.args.to.s)

\* C14: send_email and send_whatsapp_message do not raise when the sender is
\* disabled by configuration or its provider credentials are missing: each
\* returns success = false with a message, and the result of a disabled sender
\* differs from the result of a sender whose credentials are missing.
C14_DisabledAndMissingAreDistinctFailures ==
    (SenderCall /\ (SenderDisabled(call.op, settings) \/ CredentialsMissing(call.op, settings)))
    =>  /\ call.result.exc = "none"
        /\ ~call.result.success
        /\ call.result.message # ""
        /\ SenderDisabled(call.op, settings) =>
             \A cfg \in SenderSettings :
                CredentialsMissing(call.op, cfg) =>
                    [message |-> call.result.message, details |-> call.result.details]
                    # [message |-> ResultUnder(call, cfg).message,
                       details |-> ResultUnder(call, cfg).details]

(***************************************************************************)
(* C15                                                                     *)
(***************************************************************************)
\* a create_event call with the calendar on, the email sender on and configured,
\* and attendees that are all addresses
EventCall ==
    /\ call.op = "create_event"
    /\ settings.CALENDAR_MCP_ENABLED
    /\ EmailIsEnabled(settings)
    /\ \A i \in DOMAIN call.args.attendees : _is_valid_email(call.args.attendees[i].s)

\* C15: create_event with the calendar enabled, send_via_email true and a
\* non-empty attendee list sends one email per attendee, each carrying the ICS
\* block as an attachment; with send_via_email false or no attendee it sends no
\* email; for every caller (post_create_event, create_appointment, tool_router).
C15_OneIcsEmailPerAttendee ==
    EventCall =>
        IF call.args.send_via_email /\ call.args.attendees # <<>>
        THEN /\ Len(call.result.outbound) = Len(call.args.attendees)
             /\ \A i \in DOMAIN call.result.outbound :
                    /\ call.result.outbound[i].to = call.args.attendees[i]
                    /\ call.result.outbound[i].attachments = 1
        ELSE call.result.outbound = <<>>

(***************************************************************************)
(* C16                                                                     *)
(***************************************************************************)
\* the keyword groups in the order the claim gives, each with its intent
GroupOrder ==
    << [keywords |-> ClassifyKeywords.create_keywords, intent |-> "create_appointment"],
       [keywords |-> ClassifyKeywords.cancel_keywords, intent |-> "cancel_appointment"],
       [keywords |-> ClassifyKeywords.reschedule_keywords, intent |-> "reschedule_appointment"],
       [keywords |-> ClassifyKeywords.status_keywords, intent |-> "appointment_status"],
       [keywords |-> ClassifyKeywords.reminder_keywords, intent |-> "appointment_reminder"],
       [keywords |-> ClassifyKeywords.followup_keywords, intent |-> "follow_up"],
       [keywords |-> ClassifyKeywords.general_tool_keywords, intent |-> "general_tools"],
       [keywords |-> ClassifyKeywords.faq_keywords, intent |-> "faq"] >>

\* group g has a keyword that is a substring of the lower-cased message; the FAQ
\* group matches only a message of fewer than 15 words
GroupMatches(g, lowered) ==
    /\ \E i \in DOMAIN GroupOrder[g].keywords :
            \E at \in 1..Len(lowered) : OccursAt(lowered, GroupOrder[g].keywords[i], at)
    /\ GroupOrder[g].intent = "faq" => WordCount(lowered) < 15

\* the groups that match the message
MatchingGroups(message) ==
    LET lowered == Lower(message)
    IN  {g \in DOMAIN GroupOrder : GroupMatches(g, lowered)}

\* C16: classify_intent returns the intent of the first keyword group, in the
\* order create, cancel, reschedule, status, reminder, follow-up, general tools,
\* FAQ, that has a keyword occurring in the lower-cased message (the FAQ group
\* only for fewer than 15 words), and 'rag' exactly when no group matches.
C16_FirstMatchingGroupWins ==
    call.op = "classify_intent" =>
        LET matching == MatchingGroups(call.user_message)
        IN  /\ (call.intent = "rag") <=> (matching = {})
            /\ \A g \in matching :
                    (\A h \in matching : g <= h) => call.intent = GroupOrder[g].intent

\* a message with a cancel keyword and a create keyword is a create request
C16_Witness ==
    /\ call.op = "classify_intent"
    /\ {1, 2} \subseteq MatchingGroups(call.user_message)
    /\ call.intent = "create_appointment"

\* a message of 15 words whose only keywords are FAQ keywords is a 'rag' request
C16_WitnessWordLimit ==
    /\ call.op = "classify_intent"
    /\ WordCount(call.user_message) = 15
    /\ AnyKeyword(ClassifyKeywords.faq_keywords, Lower(call.user_message))
    /\ call.intent = "rag"

(***************************************************************************)
(* C17                                                                     *)
(***************************************************************************)
\* the business ids of the Business rows of d
BusinessIdsOf(d) == {d.businesses[i].id : i \in DOMAIN d.businesses}

\* C17: after any sequence of registration, update, chat, upload and appointment
\* requests, every stored Lead, Document and Appointment has the business_id of
\* an existing Business, and no request removes a Business.
C17_RowsBelongToExistingBusiness ==
    /\ \A i \in DOMAIN db.leads : db.leads[i] \in BusinessIdsOf(db)
    /\ \A i \in DOMAIN db.documents : db.documents[i] \in BusinessIdsOf(db)
    /\ \A i \in DOMAIN db.appointments : db.appointments[i].business_id \in BusinessIdsOf(db)
    /\ call # NoCall => BusinessIdsOf(call.before.db) \subseteq BusinessIdsOf(db)

\* rows are stored and a request that would store one names an unknown business
C17_Witness ==
    /\ call # NoCall
    /\ call.op \in {"chat_endpoint", "create_appointment", "upload_documents"}
    /\ call.request.business_id \notin BusinessIdsOf(db)
    /\ db.businesses # <<>>
    /\ Len(db.leads) + Len(db.documents) + Len(db.appointments) >= 1

(***************************************************************************)
(* C18                                                                     *)
(***************************************************************************)
\* the last request was a chat request and it was answered
ChatAnswered == call.op = "chat_endpoint" /\ call.response.status = 200

\* how many Lead rows the last request stored
LeadsCreated == Len(db.leads) - Len(call.before.db.leads)

UnknownBusinessRequest ==
    /\ call.op \in {"chat_endpoint", "create_appointment", "upload_documents",
                    "update_business", "get_business", "get_business_documents"}
    /\ call.request.business_id \notin BusinessIdsOf(call.before.db)

\* C19: every endpoint that takes a business id answers an unknown id with 404
\* 'Business not found' and changes nothing: no row, no file, no notification.
C19_UnknownBusinessIsNotFound ==
    UnknownBusinessRequest =>
        /\ call.response.status = 404
        /\ call.response.detail = "Business not found"
        /\ db = call.before.db
        /\ outbound = call.before.outbound
        /\ vector_store = call.before.vector_store

(***************************************************************************)
(* C20                                                                     *)
(***************************************************************************)
\* C20: for an existing business chat_endpoint always completes with a reply
\* that is not empty, whether lead persistence, notification and answer
\* generation succeed or fail; no exception leaves the handler.
C20_ChatAlwaysReplies ==
    (call.op = "chat_endpoint" /\ call.request.business_id \in BusinessIdsOf(call.before.db))
    =>  /\ ~call.response.escaped
        /\ call.response.status = 200
        /\ call.response.reply # <<>>

(***************************************************************************)
(* C21                                                                     *)
(***************************************************************************)
\* the last request asked for an appointment with an existing business, and the
\* database took the row when there was one to store
AppointmentCall ==
    /\ call.op = "create_appointment"
    /\ call.request.business_id \in BusinessIdsOf(call.before.db)
    /\ ~call.response.escaped

\* the Appointment rows and the provider calls the last request added
AppointmentsCreated ==
    SubSeq(db.appointments, Len(call.before.db.appointments) + 1, Len(db.appointments))

NotificationsAttempted ==
    SubSeq(outbound, Len(call.before.outbound) + 1, Len(outbound))

C21_WitnessSavedFirst ==
    /\ AppointmentCall
    /\ call.response = Running
    /\ Len(AppointmentsCreated) = 1
    /\ EmailIsEnabled(settings) /\ Truthy(call.request.customer_email)

C21_WitnessMalformed ==
    /\ AppointmentCall
    /\ ~call.request.well_formed
    /\ call.response.status = 400

(***************************************************************************)
(* C22                                                                     *)
(***************************************************************************)
\* text is the serialized structured payload: a JSON object with an "answer"
\* or a "call_tool" member
IsStructuredPayload(text) ==
    \E p \in {json_loads(text)} :
        /\ p.ok
        /\ p.val.type = "dict"
        /\ (HasKey(p.val, RouterKey.answer) \/ HasKey(p.val, RouterKey.call_tool))

\* C22: the reply of chat_endpoint is plain text, never the serialized
\* {"answer", "call_tool"} payload, and its tool_actions list is empty, for
\* every user message, a booking message with a date and a time included.
C22_ChatReplyIsPlainText ==
    ChatAnswered =>
        /\ ~IsStructuredPayload(call.response.reply)
        /\ call.response.tool_actions = <<>>

(***************************************************************************)
(* C23                                                                     *)
(***************************************************************************)
\* the loop can run the handler of request j now
CanProceed(j) == ENABLED (StartHandler(j) \/ ResumeHandler(j))

\* C23: while one chat request is inside its retrieval or generation call,
\* another request that is ready to run can still make progress: a slow
\* generation call of one request never stalls the handling of the others.
C23_SlowGenerationStallsNoOne ==
    \A i \in DOMAIN tasks, j \in DOMAIN tasks :
        (i # j /\ tasks[i].pc = "generating" /\ tasks[j].pc \in {"accepted", "ready"})
        => CanProceed(j)

(***************************************************************************)
(* C24                                                                     *)
(***************************************************************************)
\* the action entries a tool_router call returned (none when it raised or was
\* not made)
EntriesOf(r) == IF r = Absent \/ r.exc # "none" THEN <<>> ELSE r.tool_actions

\* C24: every entry of the action list tool_router returns stands for a send
\* that was scheduled on the event loop; when _schedule cannot schedule the
\* coroutine (RuntimeError) no entry is emitted for it.
C24_EntriesAreScheduled ==
    pc = "answer" =>
        /\ Len(EntriesOf(routed)) + Len(EntriesOf(rerouted)) <= Len(tasks)
        /\ loop = "none" => EntriesOf(routed) = <<>> /\ EntriesOf(rerouted) = <<>>

(***************************************************************************)
(* C25                                                                     *)
(***************************************************************************)
\* the last call was a sender called with arguments of the types it declares,
\* and no provider call ended with an exception that is not the provider's own
TypedSenderCall ==
    /\ call.op \in {"send_email", "send_whatsapp_message",
                    "create_event", "update_event", "cancel_event"}
    /\ call.op = "create_event" => call.args.caller = "post_create_event"
    /\ IF call.op \in {"send_email", "send_whatsapp_message"}
       THEN call.args.provider # "error"
       ELSE \A i \in DOMAIN call.args.providers : call.args.providers[i] # "error"

\* the destinations of the last call that are well-formed
WellFormedDestinations ==
    IF call.op = "send_email"
    THEN IF _is_valid_email(call.args.to.s) THEN <<call.args.to>> ELSE <<>>
    ELSE IF call.op = "send_whatsapp_message" THEN <<call.args.to>>
    ELSE IF call.args.send_via_email
    THEN SelectSeq(call.args.attendees, LAMBDA a : _is_valid_email(a.s))
    ELSE <<>>

\* the sender of the last call is enabled by configuration
SenderEnabled ==
    IF call.op = "send_email" THEN EmailIsEnabled(settings)
    ELSE IF call.op = "send_whatsapp_message"
    THEN settings.WHATSAPP_MCP_ENABLED /\ Truthy(settings.WHATSAPP_ACCESS_TOKEN)
    ELSE settings.CALENDAR_MCP_ENABLED /\ EmailIsEnabled(settings)

\* C25: a sender makes exactly one provider call per well-formed destination
\* when it is enabled, and none for a malformed destination or when it is
\* disabled by configuration: send_email, send_whatsapp_message, and the emails
\* of create_event, update_event and cancel_event, which send none while
\* CALENDAR_MCP_ENABLED is false.
C25_OneProviderCallPerDestination ==
    TypedSenderCall =>
        /\ Len(call.result.outbound) = IF SenderEnabled THEN Len(WellFormedDestinations) ELSE 0
        /\ \A i \in DOMAIN call.result.outbound :
                call.result.outbound[i].to = WellFormedDestinations[i]

\* C25 for send_email and create_event alone
C25_EmailAndCreateEvent ==
    (TypedSenderCall /\ call.op \in {"send_email", "create_event"})
    =>  /\ Len(call.result.outbound) = IF SenderEnabled THEN Len(WellFormedDestinations) ELSE 0
        /\ \A i \in DOMAIN call.result.outbound :
                call.result.outbound[i].to = WellFormedDestinations[i]

(***************************************************************************)
(* C26                                                                     *)
(***************************************************************************)
\* the message contains a booking keyword or a WhatsApp keyword, in any case
HasToolKeyword(message) ==
    \E k \in {BOOKING_KEYWORDS[i] : i \in DOMAIN BOOKING_KEYWORDS}
             \cup {WHATSAPP_KEYWORDS[i] : i \in DOMAIN WHATSAPP_KEYWORDS} :
        Contains(Lower(message), k)

\* the reply is the serialized create_event payload
IsCreateEventPayload(reply) ==
    \E p \in {json_loads(reply)} :
        HasCallObject(p) /\ NameOf(p) = PyStr(ToolName.create_event)

C26_WitnessGenerated ==
    /\ call.op = "generate_answer"
    /\ ~HasToolKeyword(call.user_message)
    /\ call.llm_calls = 1
    /\ call.hf.kind = "text"
    /\ call.reply = Strip(call.hf.text)
    /\ call.reply # <<>>

(***************************************************************************)
(* C27                                                                     *)
(***************************************************************************)
\* the intents classify_intent declares in its return type
DeclaredIntents ==
    {GroupOrder[g].intent : g \in DOMAIN GroupOrder} \cup {"rag"}

\* the intents returned for the messages that are one keyword, or a greeting
IntentsReturned == {classify_intent(m) : m \in KeywordMessages}

\* the message is, once lower-cased and stripped, a keyword of group g
IsKeywordOf(g, message) ==
    \E i \in DOMAIN GroupOrder[g].keywords : Strip(Lower(message)) = GroupOrder[g].keywords[i]

\* C27: each of the nine declared intents is returned for at least one message,
\* and a message that is a keyword of the cancel, the reschedule or the status
\* group is classified with the intent of that group.
C27_EveryIntentIsReturned ==
    call.op = "classify_intent" =>
        /\ \A g \in 2..4 :
                IsKeywordOf(g, call.user_message) => call.intent = GroupOrder[g].intent
        /\ DeclaredIntents \subseteq IntentsReturned

\* what the code does instead: 'appointment_status' is returned for no message,
\* because every status keyword holds a create keyword, and the create group
\* is tested first
C27_StatusIntentNeverReturned ==
    /\ \A i \in DOMAIN ClassifyKeywords.status_keywords :
            AnyKeyword(ClassifyKeywords.create_keywords, ClassifyKeywords.status_keywords[i])
    /\ call.op = "classify_intent" => call.intent # "appointment_status"
    /\ IntentsReturned = DeclaredIntents \ {"appointment_status"}

(***************************************************************************)
(* C28                                                                     *)
(***************************************************************************)
\* a query of the simple store that the embeddings answered
RankedQuery ==
    /\ call.op = "query_documents"
    /\ vector_store.mode = "simple"
    /\ vector_store.embedding_model
    /\ ~call.result.raised
    /\ call.result.similarities # <<>>

\* the entries of the file the query read
QueriedEntries == _load_simple_store(vector_store.files, call.business_id)

\* every result has the text of the entry whose embedding gave its similarity
PairedWithOwnEmbedding ==
    \A i \in DOMAIN call.result.docs : call.result.entry[i] = call.result.scored[i]

\* the results are the n_results rows of highest similarity, highest first
HighestFirst ==
    /\ Len(call.result.docs) = Len(Prefix(call.result.similarities, call.n_results))
    /\ call.result.top \in TopRows(call.result.similarities, call.n_results)

\* C28: in the simple store with embeddings, every result of query_documents
\* pairs the text and metadata of a chunk with the similarity of that chunk's
\* own embedding, and the results are the n_results chunks of highest
\* similarity in descending order, also when some entries hold no embedding.
C28_ResultsPairTextWithOwnSimilarity ==
    RankedQuery => (PairedWithOwnEmbedding /\ HighestFirst)

\* the claim holds of a file whose entries all hold an embedding
C28_PairedWhenEveryEntryIsEmbedded ==
    (RankedQuery /\ \A i \in DOMAIN QueriedEntries : QueriedEntries[i].embedding)
        => (PairedWithOwnEmbedding /\ HighestFirst)

\* and such a query is made, with two entries to rank
C28_WitnessEveryEntryEmbedded ==
    /\ RankedQuery
    /\ Len(QueriedEntries) = 2
    /\ \A i \in DOMAIN QueriedEntries : QueriedEntries[i].embedding
    /\ Len(call.result.docs) = 2

(***************************************************************************)
(* C29                                                                     *)
(***************************************************************************)
\* every add_documents call begun has completed, and each one returned True
AddsCompleted ==
    /\ log # <<>>
    /\ \A w \in DOMAIN tasks : tasks[w].pc = "idle"
    /\ \A k \in DOMAIN log : log[k].success

\* how many entries of business b's file hold text t
StoredCopies(b, t) ==
    Cardinality({i \in DOMAIN _load_simple_store(vector_store.files, b) :
                    /\ _load_simple_store(vector_store.files, b)[i].kind = "entry"
                    /\ _load_simple_store(vector_store.files, b)[i].text = t})

\* how many completed calls added text t for business b
AddedCopies(b, t) ==
    Cardinality({k \in DOMAIN log : log[k].business_id = b /\ log[k].text = t})

\* no call removed or changed a stored entry, and every entry added is stored
OnlyAppended ==
    /\ \A k \in DOMAIN log : log[k].kept
    /\ \A b \in BusinessIds, t \in Chunks : StoredCopies(b, t) >= AddedCopies(b, t)

\* C29: add_documents on the simple store only appends: stored entries are
\* neither removed nor changed, and when two calls for one business interleave
\* (each loads the list, appends, saves) the store holds the entries of both
\* once both have completed.
C29_InterleavedAddsKeepBothEntries ==
    AddsCompleted => OnlyAppended

\* the claim holds of calls that follow one another: none saved a list that
\* had changed since it was loaded
C29_SerialAddsOnlyAppend ==
    (AddsCompleted /\ \A k \in DOMAIN log : ~log[k].stale) => OnlyAppended

\* and two such calls are made for one business, by different writers
C29_WitnessSerialAdds ==
    /\ AddsCompleted
    /\ Len(log) = 2
    /\ log[1].business_id = log[2].business_id
    /\ log[1].writer # log[2].writer
    /\ \A k \in DOMAIN log : ~log[k].stale

(***************************************************************************)
(* C30                                                                     *)
(***************************************************************************)
\* chunk_text is running or has returned, called with chunk_size > 0 and
\* chunk_overlap >= 0
ChunkCall ==
    /\ call.op = "chunk_text"
    /\ call.chunk_size > 0
    /\ call.chunk_overlap >= 0

\* the loop ends: start grows with every iteration, so that a call that
\* returns has made no more iterations than the text has characters
TerminatesWithinText == call.iterations <= Len(call.text)

\* what the chunks returned are: none for the empty text; each one the text
\* from its start on, at most chunk_size long; every position in some chunk;
\* consecutive starts chunk_size - chunk_overlap apart
ChunksCoverText ==
    /\ call.text = <<>> => call.chunks = <<>>
    /\ \A k \in DOMAIN call.chunks :
        /\ Len(call.chunks[k]) <= call.chunk_size
        /\ call.starts[k] >= 0
        /\ \A j \in DOMAIN call.chunks[k] : call.chunks[k][j] = call.text[call.starts[k] + j]
    /\ \A p \in DOMAIN call.text :
            \E k \in DOMAIN call.chunks :
                call.starts[k] < p /\ p <= call.starts[k] + Len(call.chunks[k])
    /\ \A k \in DOMAIN call.chunks :
            k > 1 => call.starts[k] - call.starts[k - 1] = call.chunk_size - call.chunk_overlap

\* C30: chunk_text terminates for every text, chunk_size > 0 and
\* chunk_overlap >= 0, returns no chunk for the empty text, and its chunks
\* cover the text: every position is in a chunk, each chunk is at most
\* chunk_size long, consecutive chunks start chunk_size - chunk_overlap apart.
C30_ChunkTextTerminatesAndCovers ==
    ChunkCall => (TerminatesWithinText /\ (call.returned => ChunksCoverText))

\* the claim holds of calls whose overlap is smaller than the chunk size
C30_TerminatesWhenOverlapIsSmaller ==
    (ChunkCall /\ call.chunk_overlap < call.chunk_size)
        => (TerminatesWithinText /\ (call.returned => ChunksCoverText))

\* and such a call returns overlapping chunks
C30_WitnessOverlappingChunks ==
    /\ ChunkCall
    /\ call.returned
    /\ call.chunk_overlap > 0
    /\ call.chunk_overlap < call.chunk_size
    /\ Len(call.chunks) > 2

\* with an overlap that is no smaller than the chunk size the loop goes on
\* for as long as it is followed, on every text but the empty one
C30_LoopsWhenOverlapIsNotSmaller ==
    (ChunkCall /\ call.chunk_overlap >= call.chunk_size /\ call.text # <<>>)
        => ~call.returned

=============================================================================
